---- MODULE Spec2Model ----
(***************************************************************************)
(* A model of ai-router's provider layer: the provider registry            *)
(* (ProviderRegistry), the adapter base class (BaseProvider) with its      *)
(* retry executor (fetchWithRetry), the adapters' methods, and, of the     *)
(* CLI, the generate-text command with its cost guard and pricing cache.   *)
(*                                                                         *)
(* JavaScript runs one task at a time and switches tasks only at an await: *)
(* every action below is the code that runs from one await to the next.    *)
(***************************************************************************)
EXTENDS Integers, Sequences, FiniteSets, TLC

(***************************************************************************)
(* Bounds of the model.                                                    *)
(***************************************************************************)
\* Adapter objects getProvider may construct in one run.
MaxAdapters == 2
\* Tasks that call getProvider, possibly while another task's call is suspended.
NumCallers == 2

(***************************************************************************)
(* Values.                                                                 *)
(***************************************************************************)
\* An optional number that is absent (timeout?: number, maxRetries?: number).
NoValue == -1

\* The adapter classes a factory constructs.
Classes == {"OpenAIProvider", "GoogleProvider", "OpenRouterProvider"}

\* Provider ids: the three the constructor registers and one it does not.
Ids == {"openai", "google", "openrouter", "custom"}

\* The registerFactory calls made after construction: a new id, and an
\* overwrite of a registered one.
Registrations == {<<"custom", "OpenRouterProvider">>, <<"openai", "GoogleProvider">>}

\* meta.id and meta.capabilities of each adapter class.
meta(cls) ==
    CASE cls = "OpenAIProvider" ->
           [id |-> "openai", capabilities |-> {"text", "image", "audio", "embedding"}]
      [] cls = "GoogleProvider" ->
           [id |-> "google", capabilities |-> {"text", "image", "video", "embedding"}]
      [] cls = "OpenRouterProvider" ->
           [id |-> "openrouter", capabilities |-> {"text", "image"}]

\* The ProviderConfig objects callers pass, by name; "undefined" is no config.
ConfigNames == {"c0", "c1", "c2", "c3"}

\* The fields of each ProviderConfig the provider layer reads: timeout,
\* maxRetries and the models of `models` ("undefined": absent).
ProviderConfig(name) ==
    CASE name = "c0" -> [timeout |-> 2000, maxRetries |-> 0, text |-> "undefined",
                         image |-> "undefined", audio |-> "undefined",
                         tts |-> "undefined", video |-> "undefined"]
      [] name = "c1" -> [timeout |-> 2000, maxRetries |-> 1, text |-> "m2",
                         image |-> "m3", audio |-> "m4",
                         tts |-> "undefined", video |-> "m6"]
      [] name = "c2" -> [timeout |-> 2000, maxRetries |-> 2, text |-> "m2",
                         image |-> "undefined", audio |-> "undefined",
                         tts |-> "m5", video |-> "undefined"]
      [] name = "c3" -> [timeout |-> NoValue, maxRetries |-> NoValue, text |-> "undefined",
                         image |-> "undefined", audio |-> "undefined",
                         tts |-> "undefined", video |-> "undefined"]

\* The configs passed where only their identity matters.
RegistryConfigs == {"c1", "c2"}

VARIABLES
    factories,      \* ProviderRegistry.factories: id -> adapter class, or "none"
    providers,      \* ProviderRegistry.providers: id -> adapter object, or 0
    adapters,       \* the adapter objects getProvider constructed, by reference 1..Len
    getCall,        \* each caller's getProvider call, while it is suspended
    lastGet,        \* history: the getProvider call that completed last, and its result
    constructed,    \* history: the adapter objects getProvider constructed, per id
    returned,       \* history: the adapter objects getProvider returned, per id
    firstReturned,  \* history: the adapter the first completed getProvider(id) returned
    overlapped,     \* history: ids for which a getProvider call started while another was suspended
    call,           \* the capability call under way: its locals and its result
    clock,          \* milliseconds since the capability call started
    inflight,       \* the attempts whose HTTP request is outstanding
    attempts,       \* history: the HTTP requests the call has issued
    lastOutcome,    \* history: how the latest HTTP attempt ended
    sleeps,         \* history: the backoff sleeps of the call, in order
    streamCall,     \* the generateTextStream call under way: its locals and its result
    transport,      \* the response body of the stream: its text and what is left to read
    decoder,        \* the parseSSEStream generator: its position, reader, buffer and loop
    yielded,        \* history: the chunks the generator has yielded to its consumer
    method,         \* the capability method call under way, of any of the five methods
    cost,           \* the cost guard's call: its arguments and its outcome
    now,            \* Date.now(), in milliseconds
    disk,           \* the pricing cache of the persisted config file
    refresh,        \* each process's use of the pricing cache: its locals and its result
    est,            \* the estimateCost call: its arguments and its result
    command,        \* the generate-text command: its options, locals and outcome
    gen,            \* an adapter's handling of a 2xx response: the body and the outcome
    cred,           \* the validateCredentials call: its request and its result
    req,            \* the text requests the two text methods build for one input
    info,           \* the latest discovery call on the registry and its result
    persisted       \* the config file, but for its pricing cache

registryVars == <<factories, providers, adapters, getCall, lastGet,
                  constructed, returned, firstReturned, overlapped>>

callVars == <<call, clock, inflight, attempts, lastOutcome, sleeps>>

streamVars == <<streamCall, transport, decoder, yielded>>

commandVars == <<now, disk, refresh, est, command>>

adapterVars == <<gen, cred>>

lateVars == <<req, info, persisted>>

vars == <<factories, providers, adapters, getCall, lastGet,
          constructed, returned, firstReturned, overlapped,
          call, clock, inflight, attempts, lastOutcome, sleeps,
          streamCall, transport, decoder, yielded, method, cost,
          now, disk, refresh, est, command, gen, cred, req, info, persisted>>

Callers == 1..NumCallers

\* A caller with no getProvider call suspended.
NoCall == [pc |-> "idle", id |-> "none", inst |-> 0]

\* No getProvider call has completed.
NoGet == [id |-> "none", config |-> "undefined", result |-> "none", inst |-> 0]

(***************************************************************************)
(* BaseProvider: construction and initialize.                              *)
(***************************************************************************)
\* new XProvider(): initialized = false, config unset.
NewAdapter(cls) == [cls |-> cls, initialized |-> FALSE, config |-> "undefined"]

\* initialize(config): stores the config and sets the flag. The body has no
\* await, so it runs to its end inside the caller's step.
initialize(a, config) == [a EXCEPT !.config = config, !.initialized = TRUE]

(***************************************************************************)
(* ProviderRegistry.                                                       *)
(***************************************************************************)
\* registerFactory(id, factory).
registerFactory(id, cls) ==
    /\ factories' = [factories EXCEPT ![id] = cls]
    /\ UNCHANGED <<providers, adapters, getCall, lastGet, constructed, returned,
                   firstReturned, overlapped>>
    /\ UNCHANGED callVars
    /\ UNCHANGED <<streamVars, method, cost, commandVars, adapterVars, lateVars>>

\* this.providers.get(id): the cached adapter, 0 when there is none.
cachedProvider(id) == providers[id]

\* A cache hit that initializes the cached adapter again with the call's config.
onCacheHit_reinitializes(ref, config) ==
    IF config # "undefined"
    THEN [adapters EXCEPT ![ref] = initialize(@, config)]
    ELSE adapters

\* The adapter objects after a cache hit: `return cached` touches none.
onCacheHit(ref, config) == adapters

\* A lookup that falls back to a default factory for an unregistered id.
factoryFor_defaulting(id) ==
    IF factories[id] = "none" THEN "OpenAIProvider" ELSE factories[id]

\* this.factories.get(id): the registered class, "none" when there is none.
factoryFor(id) == factories[id]

\* A set that stores nothing.
cacheSet_dropped(id, ref) == providers

\* this.providers.set(id, provider)
cacheSet(id, ref) == [providers EXCEPT ![id] = ref]

\* `return provider`: what a completed call hands to its caller.
Returns(id, config, ref) ==
    /\ lastGet' = [id |-> id, config |-> config, result |-> "ok", inst |-> ref]
    /\ returned' = [returned EXCEPT ![id] = @ \cup {ref}]
    /\ firstReturned' = IF firstReturned[id] = 0
                        THEN [firstReturned EXCEPT ![id] = ref]
                        ELSE firstReturned

\* getProvider(id, config) from its call to its first await, or to its end
\* when it does not await.
getProvider(c, id, config) ==
    /\ getCall[c].pc = "idle"
    /\ UNCHANGED callVars
    /\ UNCHANGED <<streamVars, method, cost, commandVars, adapterVars, lateVars>>
    /\ overlapped' = IF \E d \in Callers : getCall[d].pc = "awaitInit" /\ getCall[d].id = id
                     THEN overlapped \cup {id} ELSE overlapped
    /\ IF cachedProvider(id) # 0
       THEN \* if (cached) return cached
            /\ Returns(id, config, cachedProvider(id))
            /\ adapters' = onCacheHit(cachedProvider(id), config)
            /\ UNCHANGED <<factories, providers, getCall, constructed>>
       ELSE IF factoryFor(id) = "none"
       THEN \* throw new ProviderError(`Unknown provider: ${id}`, id)
            /\ lastGet' = [id |-> id, config |-> config,
                           result |-> "Unknown provider", inst |-> 0]
            /\ UNCHANGED <<factories, providers, adapters, getCall, constructed,
                           returned, firstReturned>>
       ELSE /\ Len(adapters) < MaxAdapters
            /\ LET ref == Len(adapters) + 1
                   provider == NewAdapter(factoryFor(id))
               IN  /\ constructed' = [constructed EXCEPT ![id] = @ \cup {ref}]
                   /\ IF config # "undefined"
                      THEN \* await provider.initialize(config)
                           /\ adapters' = Append(adapters, initialize(provider, config))
                           /\ getCall' = [getCall EXCEPT ![c] =
                                            [pc |-> "awaitInit", id |-> id, inst |-> ref]]
                           /\ UNCHANGED <<providers, lastGet, returned, firstReturned>>
                      ELSE /\ adapters' = Append(adapters, provider)
                           /\ providers' = cacheSet(id, ref)
                           /\ Returns(id, config, ref)
                           /\ UNCHANGED getCall
            /\ UNCHANGED factories

\* getProvider after its await: this.providers.set(id, provider); return provider.
getProviderResume(c) ==
    /\ getCall[c].pc = "awaitInit"
    /\ providers' = cacheSet(getCall[c].id, getCall[c].inst)
    /\ Returns(getCall[c].id, adapters[getCall[c].inst].config, getCall[c].inst)
    /\ getCall' = [getCall EXCEPT ![c] = NoCall]
    /\ UNCHANGED <<factories, adapters, constructed, overlapped>>
    /\ UNCHANGED callVars
    /\ UNCHANGED <<streamVars, method, cost, commandVars, adapterVars, lateVars>>

(***************************************************************************)
(* Errors and the capability call's record.                                *)
(***************************************************************************)
\* An error object: name, message, the provider it is tagged with ("none"
\* when untagged), HTTP status (NoValue when it carries none) and, as its
\* identity, the HTTP attempt that produced it (0: none did).
Error(name, message, provider, status, attempt) ==
    [name |-> name, message |-> message, provider |-> provider,
     status |-> status, attempt |-> attempt]

NoError == Error("none", "", "none", NoValue, 0)

\* new ProviderError(message, providerId, statusCode?)
ProviderError(message, provider, status, attempt) ==
    Error("ProviderError", message, provider, status, attempt)

\* No capability call under way.
NoCapabilityCall ==
    [pc |-> "idle", inst |-> 0, model |-> "none", maxRetries |-> 0, i |-> 0,
     lastError |-> NoError, attemptStart |-> 0, deadline |-> 0, wake |-> 0,
     result |-> "none", error |-> NoError]

\* What one HTTP attempt can end in: a 2xx response, a non-2xx response of
\* one of these statuses, or a thrown network error; or its deadline passes.
FailStatuses == {404, 500}
NoOutcome == [kind |-> "none", status |-> NoValue]

FetchOutcomes ==
    {[kind |-> "ok", status |-> 200], [kind |-> "network", status |-> NoValue]}
      \cup {[kind |-> "status", status |-> s] : s \in FailStatuses}

\* Milliseconds a request that is answered takes.
Latencies == {100}

\* A 2xx body as the adapter sees it: the expected shape, JSON without it, or not JSON.
Bodies == {"valid", "missing", "notjson"}

\* request.model: absent or given.
RequestModels == {"undefined", "m1"}

(***************************************************************************)
(* BaseProvider: the checks and helpers of a capability method.            *)
(***************************************************************************)
supports(a, capability) == capability \in meta(a.cls).capabilities

\* getModels(capability)[0] of each adapter class, "undefined" when the list is empty.
firstModel(cls, capability) ==
    CASE cls = "OpenAIProvider" /\ capability = "text" -> "gpt-4o"
      [] cls = "OpenAIProvider" /\ capability = "image" -> "dall-e-3"
      [] cls = "OpenAIProvider" /\ capability = "audio" -> "tts-1"
      [] cls = "OpenAIProvider" /\ capability = "embedding" -> "text-embedding-3-large"
      [] cls = "GoogleProvider" /\ capability = "text" -> "gemini-1.5-pro"
      [] cls = "GoogleProvider" /\ capability = "image" -> "imagen-3.0-generate-001"
      [] cls = "GoogleProvider" /\ capability = "video" -> "veo-001"
      [] cls = "GoogleProvider" /\ capability = "embedding" -> "text-embedding-004"
      [] cls = "OpenRouterProvider" /\ capability = "text" -> "anthropic/claude-sonnet-4"
      [] cls = "OpenRouterProvider" /\ capability = "image" -> "openai/dall-e-3"
      [] cls = "OpenRouterProvider" /\ capability = "embedding" -> "openai/text-embedding-3-large"
      [] OTHER -> "undefined"

\* A value JavaScript takes as false in `if (x)`: undefined or the empty string.
falsy(x) == x \in {"undefined", ""}

\* getModel(capability, requestModel): the model, or "undefined" where the
\* code throws "No model available".
getModel(a, capability, requestModel) ==
    IF ~falsy(requestModel) THEN requestModel
    ELSE LET modelKey == IF capability = "embedding" THEN "text" ELSE capability
             configured == IF a.config = "undefined" THEN "undefined"
                           ELSE ProviderConfig(a.config)[modelKey]
         IN  IF ~falsy(configured) THEN configured
             ELSE firstModel(a.cls, capability)

(***************************************************************************)
(* BaseProvider.fetchWithRetry.                                            *)
(***************************************************************************)
DefaultMaxRetries == 3
DefaultTimeout == 60000
BackoffStep == 1000

\* retries ?? this.config.maxRetries ?? 3, with retries never passed.
maxRetriesOf(config) ==
    IF ProviderConfig(config).maxRetries # NoValue
    THEN ProviderConfig(config).maxRetries ELSE DefaultMaxRetries

\* this.config.timeout ?? 60000
timeoutOf(config) ==
    IF ProviderConfig(config).timeout # NoValue
    THEN ProviderConfig(config).timeout ELSE DefaultTimeout

\* A loop that tests its condition after the first pass.
loopContinues_atLeastOnce(i, maxRetries) == i = 0 \/ i < maxRetries

\* The loop's condition off by one: i <= maxRetries.
loopContinues_inclusive(i, maxRetries) == i <= maxRetries

\* The for loop's condition: i < maxRetries.
loopContinues(i, maxRetries) == i < maxRetries

\* One signal made before the loop: a deadline for the whole call.
attemptDeadline_cumulative(callStart, attemptStart, config) ==
    callStart + timeoutOf(config)

\* AbortSignal.timeout(...) made in the loop body: the attempt's request is
\* aborted this long after the attempt starts.
attemptDeadline(callStart, attemptStart, config) == attemptStart + timeoutOf(config)

\* A catch block that never sleeps.
sleepsAfter_never(i, maxRetries) == FALSE

\* The catch block's condition for sleeping: i < maxRetries - 1.
sleepsAfter(i, maxRetries) == i < maxRetries - 1

\* Bun.sleep(1000 * i): the backoff counted from 0.
backoff_fromZero(i) == BackoffStep * i

\* Bun.sleep(1000 * (i + 1))
backoff(i) == BackoffStep * (i + 1)

\* A catch block that keeps the first error it saw.
caught_first(lastError, error) == IF lastError # NoError THEN lastError ELSE error

\* What the catch block keeps in lastError.
caught(lastError, error) == error

\* The loop from its condition at index i, at time t: the next attempt's
\* request is issued, or, the loop over, lastError (or the generic error) is
\* thrown through the capability method to its caller.
LoopFrom(i, lastError, t) ==
    /\ clock' = t
    /\ IF loopContinues(i, call.maxRetries)
       THEN /\ call' = [call EXCEPT !.pc = "awaitFetch", !.i = i, !.lastError = lastError,
                           !.attemptStart = t,
                           !.deadline = attemptDeadline(0, t, adapters[call.inst].config)]
            /\ inflight' = inflight \cup {i}
            /\ attempts' = attempts + 1
       ELSE /\ call' = [call EXCEPT !.pc = "done", !.i = i, !.lastError = lastError,
                           !.result = "error",
                           !.error = IF lastError # NoError THEN lastError
                                     ELSE ProviderError("Unknown error",
                                            meta(adapters[call.inst].cls).id, NoValue, 0)]
            /\ UNCHANGED <<inflight, attempts>>

\* The catch block, entered with `error` at time t: lastError is set; then the
\* sleep, or the loop's next iteration at once.
Catch(error, t) ==
    IF sleepsAfter(call.i, call.maxRetries)
    THEN /\ call' = [call EXCEPT !.pc = "sleeping", !.lastError = caught(call.lastError, error),
                        !.wake = t + backoff(call.i)]
         /\ sleeps' = Append(sleeps, backoff(call.i))
         /\ clock' = t
         /\ inflight' = inflight \ {call.i}
         /\ UNCHANGED attempts
    ELSE \* i++ and the loop's condition, which fails or starts the next attempt
         /\ clock' = t
         /\ IF loopContinues(call.i + 1, call.maxRetries)
            THEN /\ call' = [call EXCEPT !.pc = "awaitFetch", !.i = call.i + 1,
                                !.lastError = caught(call.lastError, error),
                                !.attemptStart = t,
                                !.deadline = attemptDeadline(0, t, adapters[call.inst].config)]
                 /\ inflight' = (inflight \ {call.i}) \cup {call.i + 1}
                 /\ attempts' = attempts + 1
            ELSE /\ call' = [call EXCEPT !.pc = "done", !.i = call.i + 1,
                                !.lastError = caught(call.lastError, error),
                                !.result = "error", !.error = caught(call.lastError, error)]
                 /\ inflight' = inflight \ {call.i}
                 /\ UNCHANGED attempts
         /\ UNCHANGED sleeps

\* The adapters a caller can hold: those getProvider has returned.
HeldAdapters == UNION {returned[id] : id \in Ids}

\* generateText(request) on adapter `inst`, to its first await: the checks,
\* the model, and fetchWithRetry up to its first fetch.
generateText(inst, requestModel) ==
    /\ call.pc = "idle"
    /\ inst \in HeldAdapters
    /\ UNCHANGED registryVars
    /\ UNCHANGED <<streamVars, method, cost, commandVars, adapterVars, lateVars>>
    /\ sleeps' = <<>>
    /\ lastOutcome' = NoOutcome
    /\ LET a == adapters[inst]
           fresh == [NoCapabilityCall EXCEPT !.inst = inst]
       IN  IF ~a.initialized
           THEN \* ensureInitialized
                /\ call' = [fresh EXCEPT !.pc = "done", !.result = "error",
                               !.error = ProviderError("not initialized", meta(a.cls).id, NoValue, 0)]
                /\ clock' = 0 /\ inflight' = {} /\ attempts' = 0
           ELSE IF ~supports(a, "text")
           THEN \* ensureCapability
                /\ call' = [fresh EXCEPT !.pc = "done", !.result = "error",
                               !.error = ProviderError("does not support", meta(a.cls).id, NoValue, 0)]
                /\ clock' = 0 /\ inflight' = {} /\ attempts' = 0
           ELSE IF getModel(a, "text", requestModel) = "undefined"
           THEN /\ call' = [fresh EXCEPT !.pc = "done", !.result = "error",
                               !.error = ProviderError("No model available", meta(a.cls).id, NoValue, 0)]
                /\ clock' = 0 /\ inflight' = {} /\ attempts' = 0
           ELSE LET started == [fresh EXCEPT !.model = getModel(a, "text", requestModel),
                                             !.maxRetries = maxRetriesOf(a.config)]
                IN  /\ clock' = 0
                    /\ IF loopContinues(0, started.maxRetries)
                       THEN /\ call' = [started EXCEPT !.pc = "awaitFetch",
                                           !.deadline = attemptDeadline(0, 0, a.config)]
                            /\ inflight' = {0}
                            /\ attempts' = 1
                       ELSE /\ call' = [started EXCEPT !.pc = "done", !.result = "error",
                                           !.error = ProviderError("Unknown error", meta(a.cls).id, NoValue, 0)]
                            /\ inflight' = {}
                            /\ attempts' = 0

\* The fetch of the attempt in flight settles before its deadline: a response
\* or a thrown error.
fetchSettles(outcome, latency) ==
    /\ call.pc = "awaitFetch"
    /\ clock + latency < call.deadline
    /\ UNCHANGED registryVars
    /\ UNCHANGED <<streamVars, method, cost, commandVars, adapterVars, lateVars>>
    /\ lastOutcome' = outcome
    /\ LET t == clock + latency
           k == call.i + 1
       IN  IF outcome.kind = "ok"
           THEN \* return response; the adapter awaits response.json()
                /\ call' = [call EXCEPT !.pc = "awaitJson"]
                /\ clock' = t
                /\ inflight' = inflight \ {call.i}
                /\ UNCHANGED <<attempts, sleeps>>
           ELSE IF outcome.kind = "network"
           THEN Catch(Error("FetchError", "fetch failed", "none", NoValue, k), t)
           ELSE \* !response.ok: throw new ProviderError(`API error: ...`, this.meta.id, response.status)
                Catch(ProviderError("API error", meta(adapters[call.inst].cls).id,
                                    outcome.status, k), t)

\* The attempt's deadline passes: the signal aborts the fetch, which throws.
fetchTimesOut ==
    /\ call.pc = "awaitFetch"
    /\ UNCHANGED registryVars
    /\ UNCHANGED <<streamVars, method, cost, commandVars, adapterVars, lateVars>>
    /\ lastOutcome' = [kind |-> "timeout", status |-> NoValue]
    /\ Catch(Error("TimeoutError", "timed out", "none", NoValue, call.i + 1),
             IF call.deadline > clock THEN call.deadline ELSE clock)

\* Bun.sleep ends: i++, the loop's condition, the next attempt.
sleepEnds ==
    /\ call.pc = "sleeping"
    /\ UNCHANGED <<registryVars, sleeps, lastOutcome>>
    /\ UNCHANGED <<streamVars, method, cost, commandVars, adapterVars, lateVars>>
    /\ LoopFrom(call.i + 1, call.lastError, call.wake)

\* The attempt's signal outlives fetchWithRetry: when its deadline passes
\* while the adapter reads the 2xx body, response.json() throws in
\* generateText, outside the retry loop.
bodyTimesOut ==
    /\ call.pc = "awaitJson"
    /\ call' = [call EXCEPT !.pc = "done", !.result = "error",
                    !.error = Error("TimeoutError", "timed out", "none", NoValue, 0)]
    /\ clock' = IF call.deadline > clock THEN call.deadline ELSE clock
    /\ UNCHANGED <<registryVars, inflight, attempts, lastOutcome, sleeps>>
    /\ UNCHANGED <<streamVars, method, cost, commandVars, adapterVars, lateVars>>

\* The caller takes the call's result.
callReturns ==
    /\ call.pc = "done"
    /\ call' = NoCapabilityCall
    /\ clock' = 0 /\ inflight' = {} /\ attempts' = 0 /\ sleeps' = <<>>
    /\ lastOutcome' = NoOutcome
    /\ UNCHANGED registryVars
    /\ UNCHANGED <<streamVars, method, cost, commandVars, adapterVars, lateVars>>

\* A body check placed inside the retry loop: a body without the expected
\* shape counts as a failed attempt.
jsonSettles_retrying(body) ==
    /\ call.pc = "awaitJson"
    /\ UNCHANGED <<registryVars, lastOutcome>>
    /\ UNCHANGED <<streamVars, method, cost, commandVars, adapterVars, lateVars>>
    /\ IF body = "valid"
       THEN /\ call' = [call EXCEPT !.pc = "done", !.result = "success"]
            /\ UNCHANGED <<clock, inflight, attempts, sleeps>>
       ELSE Catch(ProviderError("Invalid response", meta(adapters[call.inst].cls).id,
                                NoValue, 0), clock)

\* response.json() settles and generateText finishes: the adapter's check of
\* the shape and the response it builds.
jsonSettles(body) ==
    /\ call.pc = "awaitJson"
    /\ UNCHANGED <<registryVars, clock, inflight, attempts, lastOutcome, sleeps>>
    /\ UNCHANGED <<streamVars, method, cost, commandVars, adapterVars, lateVars>>
    /\ LET cls == adapters[call.inst].cls IN
       IF body = "notjson"
       THEN call' = [call EXCEPT !.pc = "done", !.result = "error",
                        !.error = Error("SyntaxError", "not JSON", "none", NoValue, 0)]
       ELSE IF body = "missing"
       THEN IF cls = "OpenAIProvider"
            THEN \* data.choices[0]!.message on a body without choices
                 call' = [call EXCEPT !.pc = "done", !.result = "error",
                             !.error = Error("TypeError", "undefined is not an object", "none", NoValue, 0)]
            ELSE call' = [call EXCEPT !.pc = "done", !.result = "error",
                             !.error = ProviderError("Invalid response", meta(cls).id, NoValue, 0)]
       ELSE call' = [call EXCEPT !.pc = "done", !.result = "success"]

(***************************************************************************)
(* generateTextStream: one fetch, outside fetchWithRetry.                  *)
(***************************************************************************)
\* No streaming call under way.
NoStreamCall ==
    [pc |-> "idle", cls |-> "none", config |-> "undefined", model |-> "none",
     requests |-> 0, sleeps |-> 0, result |-> "none", error |-> NoError]

\* The configs of the adapters a streaming call is made on: maxRetries 0 and
\* maxRetries absent.
StreamConfigs == {"c0", "c3"}

\* The adapter object a capability method is called on.
Adapter(cls, initialized, config) ==
    IF initialized THEN initialize(NewAdapter(cls), config) ELSE NewAdapter(cls)

\* A streaming call whose failed request is retried like fetchWithRetry's.
streamFailure_retrying(c, error) ==
    IF c.requests < maxRetriesOf(c.config)
    THEN [c EXCEPT !.requests = @ + 1, !.sleeps = @ + 1]
    ELSE [c EXCEPT !.pc = "done", !.result = "error", !.error = error]

\* The streaming call after its request failed: the error is thrown to the caller.
streamFailure(c, error) ==
    [c EXCEPT !.pc = "done", !.result = "error", !.error = error]

\* The error generateTextStream throws for a non-2xx response: OpenAI throws
\* a plain Error, Google and OpenRouter a ProviderError with the status.
streamStatusError(cls, status) ==
    IF cls = "OpenAIProvider"
    THEN Error("Error", "API error", "none", NoValue, 1)
    ELSE ProviderError("API error", meta(cls).id, status, 1)

\* generateTextStream(request), to its await of fetch.
generateTextStream(cls, initialized, config, requestModel) ==
    /\ streamCall.pc = "idle"
    /\ UNCHANGED <<registryVars, callVars, transport, decoder, yielded, method, cost, commandVars, adapterVars, lateVars>>
    /\ LET a == Adapter(cls, initialized, config)
           fresh == [NoStreamCall EXCEPT !.cls = cls, !.config = a.config]
       IN  IF ~a.initialized
           THEN \* ensureInitialized
                streamCall' = [fresh EXCEPT !.pc = "done", !.result = "error",
                                  !.error = ProviderError("not initialized", meta(cls).id, NoValue, 0)]
           ELSE IF ~supports(a, "text")
           THEN \* ensureCapability
                streamCall' = [fresh EXCEPT !.pc = "done", !.result = "error",
                                  !.error = ProviderError("does not support", meta(cls).id, NoValue, 0)]
           ELSE IF getModel(a, "text", requestModel) = "undefined"
           THEN streamCall' = [fresh EXCEPT !.pc = "done", !.result = "error",
                                  !.error = ProviderError("No model available", meta(cls).id, NoValue, 0)]
           ELSE streamCall' = [fresh EXCEPT !.pc = "awaitFetch", !.requests = 1,
                                  !.model = getModel(a, "text", requestModel)]

(***************************************************************************)
(* The transport text of a stream.  A text is a sequence of pieces; a read *)
(* can end between any two pieces, so a line and its "data: " prefix can   *)
(* arrive in parts.                                                        *)
(***************************************************************************)
\* Lines a stream's body is made of, at most this many.
MaxLines == 2

\* "data: " in two pieces.
DataPrefix == <<"da", "ta: ">>

DataLine(payload) == DataPrefix \o payload

\* "data: [DONE]"
Sentinel == DataLine(<<"[DONE]">>)

\* A data line with delta text "Hi", one with "Yo", one with the empty delta
\* text, one whose JSON is cut short, the sentinel, and an empty line.
LineKinds ==
    {DataLine(<<"{Hi", "}">>), DataLine(<<"{Yo", "}">>), DataLine(<<"{", "}">>),
     DataLine(<<"{Hi">>), Sentinel, <<>>}

\* The texts: newline-terminated lines.
Texts == UNION {[1..n -> LineKinds] : n \in 1..MaxLines}

\* The pieces of a text in transport order, each line followed by its newline.
RECURSIVE Flatten(_)
Flatten(text) ==
    IF text = <<>> THEN <<>> ELSE Head(text) \o <<"\n">> \o Flatten(Tail(text))

NoTransport == [lines |-> <<>>, rest |-> <<>>, delivered |-> 0, failed |-> FALSE]

\* The fetch of the streaming call settles: on 2xx the call returns the
\* stream over the response body; otherwise it throws.
streamFetchSettles(outcome, text) ==
    /\ streamCall.pc = "awaitFetch"
    /\ UNCHANGED <<registryVars, callVars, decoder, yielded, method, cost, commandVars, adapterVars, lateVars>>
    /\ IF outcome.kind = "ok"
       THEN /\ streamCall' = [streamCall EXCEPT !.pc = "done", !.result = "stream"]
            /\ transport' = [lines |-> text, rest |-> Flatten(text),
                             delivered |-> 0, failed |-> FALSE]
       ELSE /\ streamCall' =
                 streamFailure(streamCall,
                     IF outcome.kind = "network"
                     THEN Error("FetchError", "fetch failed", "none", NoValue, 1)
                     ELSE streamStatusError(streamCall.cls, outcome.status))
            /\ UNCHANGED transport

\* The lines of a body whose last line has no newline after it.
TailKinds == {DataLine(<<"{Hi", "}">>), DataLine(<<"{Yo", "}">>), Sentinel}

\* The texts that end without a newline.
TailTexts == UNION {[1..n -> TailKinds] : n \in 1..MaxLines}

\* The fetch of the streaming call settles with a 2xx response whose body
\* ends without a newline: the pieces of the text but for the last newline.
streamFetchSettlesUnterminated(text) ==
    /\ streamCall.pc = "awaitFetch"
    /\ streamCall' = [streamCall EXCEPT !.pc = "done", !.result = "stream"]
    /\ transport' = [lines |-> text,
                     rest |-> SubSeq(Flatten(text), 1, Len(Flatten(text)) - 1),
                     delivered |-> 0, failed |-> FALSE]
    /\ UNCHANGED <<registryVars, callVars, decoder, yielded, method, cost, commandVars, adapterVars, lateVars>>

(***************************************************************************)
(* parseSSEStream / parseGoogleSSEStream: the generator over the body.     *)
(***************************************************************************)
\* The generator before its first next().
NoDecoder ==
    [pc |-> "unstarted", reader |-> "none", buffer |-> <<>>, lines |-> <<>>,
     reads |-> 0, ending |-> "none", error |-> NoError]

\* buffer.split("\n") and lines.pop(): the complete lines, and the last
\* fragment, which is the new buffer.
RECURSIVE split(_, _, _)
split(pieces, lines, fragment) ==
    IF pieces = <<>> THEN [lines |-> lines, buffer |-> fragment]
    ELSE IF Head(pieces) = "\n"
         THEN split(Tail(pieces), Append(lines, fragment), <<>>)
         ELSE split(Tail(pieces), lines, Append(fragment, Head(pieces)))

\* A buffer that is emptied after every read.
retained_dropped(fragment) == <<>>

\* buffer = lines.pop() ?? ""
retained(fragment) == fragment

\* line.startsWith(prefix)
startsWith(line, prefix) ==
    /\ Len(line) >= Len(prefix)
    /\ SubSeq(line, 1, Len(prefix)) = prefix

\* A parser that completes a JSON text cut short.
JSONparse_lenient(payload) ==
    IF payload # <<>> /\ payload[1] \in {"{Hi", "{Yo", "{"}
    THEN [ok |-> TRUE,
          content |-> CASE payload[1] = "{Hi" -> "Hi"
                        [] payload[1] = "{Yo" -> "Yo"
                        [] OTHER -> ""]
    ELSE [ok |-> FALSE, content |-> "undefined"]

\* JSON.parse(payload) and the delta text of the parsed object
\* (json.choices?.[0]?.delta?.content; for Google
\* json.candidates?.[0]?.content?.parts?.[0]?.text); ok is FALSE where
\* JSON.parse throws.
JSONparse(payload) ==
    IF Len(payload) = 2 /\ payload[1] \in {"{Hi", "{Yo", "{"} /\ payload[2] = "}"
    THEN [ok |-> TRUE,
          content |-> CASE payload[1] = "{Hi" -> "Hi"
                        [] payload[1] = "{Yo" -> "Yo"
                        [] OTHER -> ""]
    ELSE [ok |-> FALSE, content |-> "undefined"]

\* The body of the for loop for one line: the chunk it yields, "undefined"
\* when it yields none.  parseGoogleSSEStream does not test for the sentinel.
chunkOf(cls, line) ==
    IF /\ startsWith(line, DataPrefix)
       /\ (cls = "GoogleProvider" \/ line # Sentinel)
    THEN LET json == JSONparse(SubSeq(line, Len(DataPrefix) + 1, Len(line)))
         IN  IF json.ok /\ ~falsy(json.content) THEN json.content ELSE "undefined"
    ELSE "undefined"

\* A for loop that is left at the sentinel.
afterLine_stopsAtSentinel(line, rest) == IF line = Sentinel THEN <<>> ELSE rest

\* The for loop after a line: it goes on with the lines left.
afterLine(line, rest) == rest

\* The for loop from `lines` on, up to its next yield: the lines from the
\* first that yields a chunk, <<>> when none does.
RECURSIVE nextYield(_, _)
nextYield(cls, lines) ==
    IF lines = <<>> THEN <<>>
    ELSE IF chunkOf(cls, Head(lines)) # "undefined" THEN lines
    ELSE nextYield(cls, afterLine(Head(lines), Tail(lines)))

\* The generator runs from `lines` of the for loop to its next suspension:
\* a yield, or, the lines done, the next reader.read().
RunLoop(lines, buffer) ==
    LET rest == nextYield(streamCall.cls, lines)
    IN  IF rest = <<>>
        THEN /\ decoder' = [decoder EXCEPT !.pc = "awaitRead", !.reader = "locked",
                               !.buffer = buffer, !.lines = <<>>, !.reads = @ + 1]
             /\ UNCHANGED yielded
        ELSE /\ decoder' = [decoder EXCEPT !.pc = "atYield", !.buffer = buffer,
                               !.lines = rest]
             /\ yielded' = Append(yielded, chunkOf(streamCall.cls, Head(rest)))

\* A generator that releases the reader only after the loop.
readerAfter_onlyOnDone(how) == IF how = "done" THEN "released" ELSE "locked"

\* finally { reader.releaseLock() }
readerAfter(how) == "released"

\* A generator that swallows the reader's error and ends.
onReadError_swallowed(error) == [ending |-> "done", error |-> NoError]

\* A rejected reader.read(): no catch in the generator, the error goes to
\* the consumer.
onReadError(error) == [ending |-> "error", error |-> error]

\* The generator ends: the finally block, then completion or the error.
Finish(how, error) ==
    [decoder EXCEPT !.pc = "finished", !.reader = readerAfter(how),
                    !.lines = <<>>, !.ending = how, !.error = error]

\* The consumer's first next(): body.getReader(), and the first read.
streamNext ==
    /\ streamCall.pc = "done" /\ streamCall.result = "stream"
    /\ decoder.pc = "unstarted"
    /\ RunLoop(<<>>, <<>>)
    /\ UNCHANGED <<registryVars, callVars, streamCall, transport, method, cost, commandVars, adapterVars, lateVars>>

\* reader.read() resolves with the next n pieces of the body.
readSettles(n) ==
    /\ decoder.pc = "awaitRead"
    /\ n \in 1..Len(transport.rest)
    /\ transport' = [transport EXCEPT !.rest = SubSeq(@, n + 1, Len(@)),
                                      !.delivered = @ + n]
    /\ LET parts == split(decoder.buffer \o SubSeq(transport.rest, 1, n), <<>>, <<>>)
       IN  RunLoop(parts.lines, retained(parts.buffer))
    /\ UNCHANGED <<registryVars, callVars, streamCall, method, cost, commandVars, adapterVars, lateVars>>

\* A generator that takes what is left in the buffer for a last line.
flushed_lastLine(buffer) == IF buffer = <<>> THEN <<>> ELSE <<buffer>>

\* The lines the generator takes from the buffer when read() resolves with
\* done: `if (done) break` leaves the loop before the buffer is looked at.
flushed(buffer) == <<>>

\* reader.read() resolves with done: break, finally.
readDone ==
    /\ decoder.pc = "awaitRead"
    /\ transport.rest = <<>>
    /\ decoder' = Finish("done", NoError)
    /\ LET rest == nextYield(streamCall.cls, flushed(decoder.buffer))
       IN  yielded' = IF rest = <<>> THEN yielded
                      ELSE Append(yielded, chunkOf(streamCall.cls, Head(rest)))
    /\ UNCHANGED <<registryVars, callVars, streamCall, transport, method, cost, commandVars, adapterVars, lateVars>>

\* reader.read() rejects.
readFails ==
    /\ decoder.pc = "awaitRead"
    /\ transport' = [transport EXCEPT !.failed = TRUE]
    /\ LET end == onReadError(Error("ReadError", "read failed", "none", NoValue, 0))
       IN  decoder' = Finish(end.ending, end.error)
    /\ UNCHANGED <<registryVars, callVars, streamCall, yielded, method, cost, commandVars, adapterVars, lateVars>>

\* The consumer's next() while the generator is suspended at a yield.
consumerNext ==
    /\ decoder.pc = "atYield"
    /\ RunLoop(afterLine(Head(decoder.lines), Tail(decoder.lines)), decoder.buffer)
    /\ UNCHANGED <<registryVars, callVars, streamCall, transport, method, cost, commandVars, adapterVars, lateVars>>

\* The consumer leaves its for await loop: return() on the suspended generator.
consumerReturns ==
    /\ decoder.pc = "atYield"
    /\ decoder' = Finish("returned", NoError)
    /\ UNCHANGED <<registryVars, callVars, streamCall, transport, yielded, method, cost, commandVars, adapterVars, lateVars>>

(***************************************************************************)
(* The capability methods of the adapters, from their call to the          *)
(* dispatch of the request, and their outcome.                             *)
(***************************************************************************)
Methods ==
    {"generateText", "generateTextStream", "generateImage", "generateAudio",
     "generateVideo"}

\* The capability each method passes to ensureCapability.
capabilityOf(name) ==
    CASE name \in {"generateText", "generateTextStream"} -> "text"
      [] name = "generateImage" -> "image"
      [] name = "generateAudio" -> "audio"
      [] name = "generateVideo" -> "video"

\* The optional methods of AIProvider each adapter class defines.
implements(cls, name) ==
    CASE cls = "OpenAIProvider" ->
           name \in {"generateText", "generateTextStream", "generateImage", "generateAudio"}
      [] cls = "GoogleProvider" ->
           name \in {"generateText", "generateTextStream", "generateImage", "generateVideo"}
      [] cls = "OpenRouterProvider" ->
           name \in {"generateText", "generateTextStream", "generateImage"}

\* An adapter that skips the initialization check.
ensureInitialized_skipped(a) == TRUE

\* ensureInitialized(): TRUE where it returns, FALSE where it throws.
ensureInitialized(a) == a.initialized

\* A capability check that always throws.
ensureCapability_always(a, capability) == FALSE

\* ensureCapability(capability): TRUE where it returns, FALSE where it throws.
ensureCapability(a, capability) == supports(a, capability)

\* `const model = ...` of each method: the model placed in the request.
methodModel(a, name, requestModel) ==
    CASE name \in {"generateText", "generateTextStream"} ->
           IF a.cls = "OpenRouterProvider"
           THEN \* request.model ?? this.getModel("text", request.model)
                IF requestModel # "undefined" THEN requestModel
                ELSE getModel(a, "text", requestModel)
           ELSE getModel(a, "text", requestModel)
      [] name = "generateImage" ->
           IF a.cls = "OpenRouterProvider"
           THEN \* request.model ?? "google/gemini-2.5-flash-image"
                IF requestModel # "undefined" THEN requestModel
                ELSE "google/gemini-2.5-flash-image"
           ELSE getModel(a, "image", requestModel)
      [] name = "generateAudio" ->
           \* this.config.models?.tts ?? "tts-1"
           IF ProviderConfig(a.config).tts # "undefined"
           THEN ProviderConfig(a.config).tts ELSE "tts-1"
      [] OTHER -> "undefined"

\* No capability method call under way.
NoMethodCall ==
    [pc |-> "idle", cls |-> "none", name |-> "none", initialized |-> FALSE,
     config |-> "undefined", requestModel |-> "undefined", outputPath |-> FALSE,
     model |-> "none", dispatched |-> FALSE, files |-> 0,
     result |-> "none", metaModel |-> "none", error |-> NoError]

\* A capability method, from its call to its first await (the fetch of the
\* request) or to the error it throws before.
invoke(cls, name, initialized, config, requestModel, outputPath) ==
    /\ method.pc = "idle"
    /\ implements(cls, name)
    /\ UNCHANGED <<registryVars, callVars, streamVars, cost, commandVars, adapterVars, lateVars>>
    /\ LET a == Adapter(cls, initialized, config)
           fresh == [NoMethodCall EXCEPT !.cls = cls, !.name = name,
                        !.initialized = initialized, !.config = config,
                        !.requestModel = requestModel, !.outputPath = outputPath]
           fails(error) == [fresh EXCEPT !.pc = "done", !.result = "error", !.error = error]
       IN  IF ~ensureInitialized(a)
           THEN method' = fails(ProviderError("not initialized", meta(cls).id, NoValue, 0))
           ELSE IF ~ensureCapability(a, capabilityOf(name))
           THEN method' = fails(ProviderError("does not support", meta(cls).id, NoValue, 0))
           ELSE IF name = "generateVideo"
           THEN \* GoogleProvider.generateVideo
                method' = fails(ProviderError("not yet fully implemented", meta(cls).id, NoValue, 0))
           ELSE IF a.config = "undefined"
           THEN \* this.config is unset: reading a field of it throws
                method' = fails(Error("TypeError", "undefined is not an object", "none", NoValue, 0))
           ELSE IF methodModel(a, name, requestModel) = "undefined"
           THEN method' = fails(ProviderError("No model available", meta(cls).id, NoValue, 0))
           ELSE IF name # "generateTextStream" /\ ~loopContinues(0, maxRetriesOf(a.config))
           THEN \* fetchWithRetry with no iteration
                method' = [fails(ProviderError("Unknown error", meta(cls).id, NoValue, 0))
                              EXCEPT !.model = methodModel(a, name, requestModel)]
           ELSE method' = [fresh EXCEPT !.pc = "awaitFetch", !.dispatched = TRUE,
                              !.model = methodModel(a, name, requestModel)]

\* The files a successful call has written: the audio always, an image
\* when the request has an output path.
filesWritten(name, outputPath) ==
    IF name = "generateAudio" \/ (name = "generateImage" /\ outputPath) THEN 1 ELSE 0

\* The method's request (with fetchWithRetry's retries, where it has them)
\* ends: with a response the method turns into its result, whose meta names
\* the model, or with the error it throws.
methodSettles(ok) ==
    /\ method.pc = "awaitFetch"
    /\ UNCHANGED <<registryVars, callVars, streamVars, cost, commandVars, adapterVars, lateVars>>
    /\ IF ok
       THEN method' = [method EXCEPT !.pc = "done",
                          !.result = IF method.name = "generateTextStream"
                                     THEN "stream" ELSE "success",
                          !.metaModel = method.model,
                          !.files = filesWritten(method.name, method.outputPath)]
       ELSE method' = [method EXCEPT !.pc = "done", !.result = "error",
                          !.error = IF method.name = "generateTextStream"
                                    THEN streamStatusError(method.cls, 500)
                                    ELSE ProviderError("API error", meta(method.cls).id, 500, 1)]

(***************************************************************************)
(* The cost guard.  Costs are in units of $0.0001.                         *)
(***************************************************************************)
\* The CostEstimate objects the guard is given: totalCost is the sum
\* estimateCost computes.
InputCosts == {0, 55, 100}
OutputCosts == {0, 45, 100}

CostEstimates ==
    {[model |-> m, inputCost |-> i, outputCost |-> o, totalCost |-> i + o, isEstimate |-> e] :
        m \in {"gpt-4o", "openai/gpt-4o"}, i \in InputCosts, o \in OutputCosts, e \in BOOLEAN}

\* The ceilings the guard is given.
Ceilings == {-100, 0, 45, 100, 155, 200}

NoEstimate ==
    [model |-> "none", inputCost |-> 0, outputCost |-> 0, totalCost |-> 0, isEstimate |-> FALSE]

NoCostError == [name |-> "none", estimate |-> NoEstimate, maxCost |-> 0]

\* new CostLimitExceededError(estimate, maxCost)
CostLimitExceededError(estimate, maxCost) ==
    [name |-> "CostLimitExceededError", estimate |-> estimate, maxCost |-> maxCost]

\* No cost check made.
NoCostCheck ==
    [pc |-> "idle", estimate |-> NoEstimate, maxCost |-> 0, raised |-> FALSE,
     error |-> NoCostError]

\* A guard that also stops a cost equal to the ceiling.
exceeds_inclusive(estimate, maxCost) == maxCost > 0 /\ estimate.totalCost >= maxCost

\* The guard's condition: maxCost > 0 && estimate.totalCost > maxCost
exceeds(estimate, maxCost) == maxCost > 0 /\ estimate.totalCost > maxCost

\* checkCostLimit(estimate, maxCost): throws, or returns.
checkCostLimit(estimate, maxCost) ==
    /\ cost.pc = "idle"
    /\ UNCHANGED <<registryVars, callVars, streamVars, method, commandVars, adapterVars, lateVars>>
    /\ cost' = [pc |-> "done", estimate |-> estimate, maxCost |-> maxCost,
                raised |-> exceeds(estimate, maxCost),
                error |-> IF exceeds(estimate, maxCost)
                          THEN CostLimitExceededError(estimate, maxCost)
                          ELSE NoCostError]

(***************************************************************************)
(* Pricing: the pricing cache of the persisted config, its refresh from    *)
(* the OpenRouter model list, and the cost estimate.  Prices are in USD    *)
(* per 1M tokens and costs in millionths of a dollar, the unit in which    *)
(* (tokens / 1_000_000) * price is tokens * price.                         *)
(***************************************************************************)
\* Processes that use the pricing cache of one config file at the same time.
NumRefreshes == 2

Refreshers == 1..NumRefreshes

DEFAULT_CACHE_TTL_HOURS == 24

\* 60 * 60 * 1000: the milliseconds of an hour.
HourMs == 60 * 60 * 1000

\* Fallback pricing for unknown models.
DEFAULT_PRICING == [input |-> 10, output |-> 30]

\* The default of estimateCost's expectedOutputTokens.
DefaultOutputTokens == 1000

\* Date.now() when the model starts: later than any TTL after the epoch.
Genesis == 100 * 1000 * 1000

\* The instants Date.now() shows: the start, and the instants around one
\* hour and around 24 hours after it.
Instants ==
    {Genesis, Genesis + 1, Genesis + HourMs,
     Genesis + DEFAULT_CACHE_TTL_HOURS * HourMs - 1,
     Genesis + DEFAULT_CACHE_TTL_HOURS * HourMs,
     Genesis + DEFAULT_CACHE_TTL_HOURS * HourMs + 1}

\* The model ids of a request: two the vendor lists and one it does not.
ModelIds == {"openai/gpt-4o", "google/gemini-pro", "openai/unlisted"}

\* parseFloat(price) * 1_000_000 of the per-token price strings of the
\* vendor's list; parseFloat of a string that is no number is NaN, and
\* NaN || 0 is 0.
perMillion(price) ==
    CASE price = "0.000005" -> 5
      [] price = "0.000015" -> 15
      [] price = "0" -> 0
      [] price = "free" -> 0
      [] price = "" -> 0

\* One entry of the vendor's list.
OpenRouterModel(id, prompt, completion) ==
    [id |-> id, pricing |-> [prompt |-> prompt, completion |-> completion]]

\* The `data` arrays the vendor answers with: one model, two models (one
\* with prices that parse to 0), one id listed twice, and no model.
Listings ==
    {<<OpenRouterModel("openai/gpt-4o", "0.000005", "0.000015")>>,
     <<OpenRouterModel("openai/gpt-4o", "0", "free"),
       OpenRouterModel("google/gemini-pro", "0.000015", "0.000005")>>,
     <<OpenRouterModel("google/gemini-pro", "0.000005", "0.000005"),
       OpenRouterModel("google/gemini-pro", "0.000015", "")>>,
     <<>>}

\* The `models` record fetchAndCachePricing builds from the list: one entry
\* per id, a later entry of an id replacing an earlier one.
modelsOf(data) ==
    [id \in {data[i].id : i \in 1..Len(data)} |->
        LET last == CHOOSE i \in 1..Len(data) :
                        /\ data[i].id = id
                        /\ \A j \in (i + 1)..Len(data) : data[j].id # id
        IN  [input |-> perMillion(data[last].pricing.prompt),
             output |-> perMillion(data[last].pricing.completion)]]

\* A PricingCache object; ttlHours is NoValue where the field is absent.
PricingCache(lastUpdated, ttlHours, models) ==
    [present |-> TRUE, lastUpdated |-> lastUpdated, ttlHours |-> ttlHours,
     models |-> models]

\* config.pricing where the config has none.
NoCache ==
    [present |-> FALSE, lastUpdated |-> 0, ttlHours |-> NoValue, models |-> modelsOf(<<>>)]

\* The pricing caches a config file written before the model starts holds:
\* written by fetchAndCachePricing at Genesis, or by hand with another TTL,
\* without a TTL, with lastUpdated 0 or with a lastUpdated yet to come.
ConfigFiles ==
    LET models == modelsOf(<<OpenRouterModel("google/gemini-pro", "0.000015", "0.000005")>>)
    IN  {PricingCache(Genesis, DEFAULT_CACHE_TTL_HOURS, models),
         PricingCache(Genesis, 1, models),
         PricingCache(Genesis, NoValue, models),
         PricingCache(0, DEFAULT_CACHE_TTL_HOURS, models),
         PricingCache(Genesis + DEFAULT_CACHE_TTL_HOURS * HourMs, DEFAULT_CACHE_TTL_HOURS, models)}

\* (cache.ttlHours ?? DEFAULT_CACHE_TTL_HOURS) * 60 * 60 * 1000
ttlMs(cache) ==
    (IF cache.ttlHours = NoValue THEN DEFAULT_CACHE_TTL_HOURS ELSE cache.ttlHours) * HourMs

\* A validity test that keeps a cache whose age equals the TTL.
isPricingCacheValid_inclusive(cache, at) ==
    IF ~cache.present \/ cache.lastUpdated = 0 THEN FALSE
    ELSE at - cache.lastUpdated <= ttlMs(cache)

\* isPricingCacheValid(cache), with Date.now() = at.
isPricingCacheValid(cache, at) ==
    IF ~cache.present \/ cache.lastUpdated = 0 THEN FALSE
    ELSE at - cache.lastUpdated < ttlMs(cache)

\* A save that keeps the models of the config it loaded.
withPricing_merged(config, cache) ==
    [cache EXCEPT !.models =
        [id \in DOMAIN config.models \cup DOMAIN cache.models |->
            IF id \in DOMAIN cache.models THEN cache.models[id] ELSE config.models[id]]]

\* config.pricing = cache, on the config loadConfig returned: of the config,
\* the model holds the pricing cache only.
withPricing(config, cache) == cache

\* A refresh that fetches whatever the cache's age.
pricingUsable_never(cache, at) == FALSE

\* if (isPricingCacheValid(config.pricing)) return config.pricing
pricingUsable(cache, at) == isPricingCacheValid(cache, at)

\* No config file.  A config file, but for its pricing: the apiKey of two
\* providers and output.format, "undefined" where the file lacks the field.
NoConfigFile ==
    [exists |-> FALSE, openaiKey |-> "undefined", googleKey |-> "undefined",
     format |-> "undefined"]

\* DEFAULT_CONFIG, the file initConfig writes.
DEFAULT_CONFIG ==
    [exists |-> TRUE, openaiKey |-> "${OPENAI_API_KEY}", googleKey |-> "${GOOGLE_API_KEY}",
     format |-> "json"]

\* The config files of the user: the one initConfig wrote, one with a key
\* written out, text output and no google section, and one of pricing only.
SettingsFiles ==
    {DEFAULT_CONFIG,
     [exists |-> TRUE, openaiKey |-> "sk-file", googleKey |-> "undefined", format |-> "text"],
     [exists |-> TRUE, openaiKey |-> "undefined", googleKey |-> "undefined",
      format |-> "undefined"]}

\* process.env[key], "undefined" where the variable is not set.
processEnv(key) == IF key = "OPENAI_API_KEY" THEN "sk-env" ELSE "undefined"

\* { ...DEFAULT_CONFIG, ...config, providers: {...}, output: {...} }; with
\* no file loadConfig takes DEFAULT_CONFIG.
mergeWithDefaults(file) ==
    IF ~file.exists THEN DEFAULT_CONFIG
    ELSE [exists |-> TRUE,
          openaiKey |-> IF file.openaiKey = "undefined" THEN DEFAULT_CONFIG.openaiKey
                        ELSE file.openaiKey,
          googleKey |-> IF file.googleKey = "undefined" THEN DEFAULT_CONFIG.googleKey
                        ELSE file.googleKey,
          format |-> IF file.format = "undefined" THEN DEFAULT_CONFIG.format
                     ELSE file.format]

\* json.replace(/\$\{(\w+)\}/g, (_, key) => process.env[key] ?? "") on one value.
resolved(value) ==
    LET keys == {key \in {"OPENAI_API_KEY", "GOOGLE_API_KEY"} :
                   value = "${" \o key \o "}"}
    IN  IF keys = {} THEN value
        ELSE LET key == CHOOSE k \in keys : TRUE
             IN  IF processEnv(key) = "undefined" THEN "" ELSE processEnv(key)

\* resolveEnvVars(config)
resolveEnvVars(config) ==
    [config EXCEPT !.openaiKey = resolved(@), !.googleKey = resolved(@),
                   !.format = resolved(@)]

\* A process that has not used the pricing cache.  `settings` is the config
\* loadConfig returned to fetchAndCachePricing, but for its pricing.
NoRefresh ==
    [pc |-> "idle", config |-> NoCache, at |-> 0, valid |-> FALSE,
     fetches |-> 0, data |-> <<>>, cache |-> NoCache, saving |-> NoCache, persists |-> 0,
     result |-> NoCache, error |-> "none", settings |-> NoConfigFile]

\* The steps of the other processes and of the other specifications.
baseVars == <<registryVars, callVars, streamVars, method, cost, lateVars>>

\* Date.now() grows.
tick(instant) ==
    /\ instant > now
    /\ now' = instant
    /\ UNCHANGED <<baseVars, adapterVars, disk, refresh, est, command>>

\* The config file as the user left it before the first process starts.
configFile(cache, file) ==
    /\ now = Genesis
    /\ disk = NoCache
    /\ persisted = NoConfigFile
    /\ file.exists
    /\ \A t \in Refreshers : refresh[t].pc = "idle"
    /\ command.pc = "idle"
    /\ disk' = cache
    /\ persisted' = file
    /\ UNCHANGED <<registryVars, callVars, streamVars, method, cost, req, info,
                   adapterVars, now, refresh, est, command>>

\* The process starts: the CLI loads the config file.
loadConfig(t) ==
    /\ refresh[t].pc = "idle"
    /\ refresh' = [refresh EXCEPT ![t] = [@ EXCEPT !.pc = "loaded", !.config = disk]]
    /\ UNCHANGED <<baseVars, adapterVars, now, disk, est, command>>

\* ensurePricingAvailable(config, apiKey) to its return or, through
\* fetchAndCachePricing, to the await of the fetch.
pricingAvailable(r) ==
    IF pricingUsable(r.config, now)
    THEN [r EXCEPT !.pc = "returned", !.at = now, !.valid = isPricingCacheValid(r.config, now), !.result = r.config]
    ELSE [r EXCEPT !.pc = "fetch", !.at = now, !.valid = isPricingCacheValid(r.config, now), !.fetches = @ + 1]

ensurePricingAvailable(t) ==
    /\ refresh[t].pc = "loaded"
    /\ refresh' = [refresh EXCEPT ![t] = pricingAvailable(@)]
    /\ UNCHANGED <<baseVars, adapterVars, now, disk, est, command>>

\* The fetch of the model list settles: a response that is not ok and a
\* failed fetch end fetchAndCachePricing with an error.
pricingFetchSettles(t, outcome) ==
    /\ refresh[t].pc = "fetch"
    /\ refresh' = [refresh EXCEPT ![t] =
          CASE outcome.kind = "ok" -> [@ EXCEPT !.pc = "json"]
            [] outcome.kind = "status" ->
                 [@ EXCEPT !.pc = "failed", !.error = "Failed to fetch models"]
            [] outcome.kind = "network" ->
                 [@ EXCEPT !.pc = "failed", !.error = "fetch failed"]]
    /\ UNCHANGED <<baseVars, adapterVars, now, disk, est, command>>

\* response.json() settles with the list: the cache is built with
\* Date.now() and loadConfig is called.
pricingJsonSettles(t, data) ==
    /\ refresh[t].pc = "json"
    /\ refresh' = [refresh EXCEPT ![t] =
          [@ EXCEPT !.pc = "load", !.data = data,
                    !.cache = PricingCache(now, DEFAULT_CACHE_TTL_HOURS, modelsOf(data))]]
    /\ UNCHANGED <<baseVars, adapterVars, now, disk, est, command>>

\* response.json() settles with a body that has no `data` array.
pricingJsonFails(t) ==
    /\ refresh[t].pc = "json"
    /\ refresh' = [refresh EXCEPT ![t] =
          [@ EXCEPT !.pc = "failed", !.error = "data.data is not iterable"]]
    /\ UNCHANGED <<baseVars, adapterVars, now, disk, est, command>>

\* loadConfig settles with the file's config: its pricing is replaced and
\* saveConfig is called, to its await of mkdir.
pricingConfigLoaded(t) ==
    /\ refresh[t].pc = "load"
    /\ refresh' = [refresh EXCEPT ![t] =
          [@ EXCEPT !.pc = "mkdir", !.saving = withPricing(disk, refresh[t].cache),
                    !.settings = resolveEnvVars(mergeWithDefaults(persisted))]]
    /\ UNCHANGED <<baseVars, adapterVars, now, disk, est, command>>

\* saveConfig: mkdir settles and Bun.write is called.
pricingMkdirSettles(t) ==
    /\ refresh[t].pc = "mkdir"
    /\ refresh' = [refresh EXCEPT ![t] = [@ EXCEPT !.pc = "write"]]
    /\ UNCHANGED <<baseVars, adapterVars, now, disk, est, command>>

\* saveConfig: Bun.write settles with the file written, and
\* fetchAndCachePricing returns the cache.
pricingWriteSettles(t) ==
    /\ refresh[t].pc = "write"
    /\ disk' = refresh[t].saving
    /\ persisted' = refresh[t].settings
    /\ refresh' = [refresh EXCEPT ![t] =
          [@ EXCEPT !.pc = "returned", !.persists = @ + 1, !.result = refresh[t].cache]]
    /\ UNCHANGED <<registryVars, callVars, streamVars, method, cost, req, info,
                   adapterVars, now, est, command>>

\* getModelPricing(model, cache): the cache's entry, else the default.
getModelPricing(model, cache) ==
    IF cache.present /\ model \in DOMAIN cache.models
    THEN cache.models[model] ELSE DEFAULT_PRICING

\* An estimate that takes a price of 0 for a missing price.
isEstimate_byPrice(model, cache) ==
    getModelPricing(model, cache).input = 0 \/ ~cache.present

\* !cache?.models?.[model]
isEstimate(model, cache) == ~(cache.present /\ model \in DOMAIN cache.models)

\* estimateCost(model, prompt, systemPrompt, expectedOutputTokens, cache),
\* where estimateTokens counts inputTokens tokens in systemPrompt + prompt;
\* expectedOutputTokens is NoValue where the argument is absent.
estimateCost(model, inputTokens, expectedOutputTokens, cache) ==
    LET pricing == getModelPricing(model, cache)
        expected == IF expectedOutputTokens = NoValue
                    THEN DefaultOutputTokens ELSE expectedOutputTokens
        inputCost == inputTokens * pricing.input
        outputCost == expected * pricing.output
    IN  [model |-> model, inputTokens |-> inputTokens,
         estimatedOutputTokens |-> expected,
         inputCost |-> inputCost, outputCost |-> outputCost,
         totalCost |-> inputCost + outputCost,
         isEstimate |-> isEstimate(model, cache)]

\* A CostEstimate not yet computed.
NoCostEstimate ==
    [model |-> "none", inputTokens |-> 0, estimatedOutputTokens |-> 0,
     inputCost |-> 0, outputCost |-> 0, totalCost |-> 0, isEstimate |-> FALSE]

\* The token counts of the inputs, and the expectedOutputTokens arguments.
TokenCounts == {0, 100, 250}
OutputTokenCounts == {NoValue, 0, 500, 1000}

\* The caches estimateCost is given: none, and one of each list.
EstimateCaches ==
    {NoCache} \cup
    {PricingCache(Genesis, DEFAULT_CACHE_TTL_HOURS, modelsOf(data)) : data \in Listings}

\* No estimateCost call made.
NoEstimateCall ==
    [pc |-> "idle", model |-> "none", inputTokens |-> 0, expectedOutputTokens |-> NoValue,
     cache |-> NoCache, result |-> NoCostEstimate]

\* One call of estimateCost.
estimateCostCall(model, inputTokens, expectedOutputTokens, cache) ==
    /\ est.pc = "idle"
    /\ est' = [pc |-> "done", model |-> model, inputTokens |-> inputTokens,
               expectedOutputTokens |-> expectedOutputTokens, cache |-> cache,
               result |-> estimateCost(model, inputTokens, expectedOutputTokens, cache)]
    /\ UNCHANGED <<baseVars, adapterVars, now, disk, refresh, command>>

(***************************************************************************)
(* The generate-text command (handleGenerateText).  The command is the     *)
(* first of the processes that use the pricing cache.                      *)
(***************************************************************************)
\* --max-cost: absent, empty, or an amount.
MaxCostOptions == {"undefined", "", "0", "0.031", "0.05"}

\* parseFloat(options.maxCost), in millionths of a dollar.
parseFloat(amount) ==
    CASE amount = "0" -> 0
      [] amount = "0.031" -> 31000
      [] amount = "0.05" -> 50000

\* --max-tokens: absent, or a count.
MaxTokensOptions == {"undefined", "4000"}

\* parseInt(options.maxTokens, 10)
parseInt(count) == CASE count = "4000" -> 4000

\* cost.maxCostPerQuery of the config, in millionths of a dollar: 0
\* (unlimited) and the 0.10 of DEFAULT_CONFIG.
ConfiguredCeilings == {0, 100000}

\* The model of the request: providerConfig.models.text of the user's
\* config, the command being run without --model.
configuredTextModel(providerId) ==
    CASE providerId = "openai" -> "gpt-4o"
      [] providerId = "google" -> "gemini-pro"
      [] providerId = "openrouter" -> "openai/gpt-4o"

\* fullModel: the model id the pricing is looked up under.
fullModel(providerId, model) ==
    IF providerId = "openrouter" THEN model ELSE providerId \o "/" \o model

\* No command run.
NoCommand ==
    [pc |-> "idle", cls |-> "none", maxCost |-> "undefined", maxTokens |-> "undefined",
     stream |-> FALSE, hasKey |-> FALSE, ceiling |-> 0, inputTokens |-> 0,
     fullModel |-> "none", estimate |-> NoCostEstimate,
     guardRuns |-> 0, guard |-> "none", dispatches |-> 0, dispatched |-> "none",
     error |-> "none"]

\* A command that never runs the cost guard.
costChecked_never(maxCost) == FALSE

\* if (options.maxCost)
costChecked(maxCost) == ~falsy(maxCost)

\* The request is built and dispatched: generateTextStream with --stream,
\* else generateText.
dispatch(c) ==
    IF c.stream /\ implements(c.cls, "generateTextStream")
    THEN [c EXCEPT !.pc = "generating", !.dispatches = @ + 1,
                   !.dispatched = "generateTextStream"]
    ELSE IF implements(c.cls, "generateText")
    THEN [c EXCEPT !.pc = "generating", !.dispatches = @ + 1,
                   !.dispatched = "generateText"]
    ELSE [c EXCEPT !.pc = "failed", !.error = "does not implement text generation"]

\* handleGenerateText(config, options, format), with the config the CLI
\* loaded, to its await of getProvider.
handleGenerateText(cls, maxCost, maxTokens, stream, hasKey, ceiling, inputTokens) ==
    /\ command.pc = "idle"
    /\ refresh[1].pc = "loaded"
    /\ command' = [NoCommand EXCEPT !.pc = "getProvider", !.cls = cls,
                      !.maxCost = maxCost, !.maxTokens = maxTokens, !.stream = stream,
                      !.hasKey = hasKey, !.ceiling = ceiling, !.inputTokens = inputTokens]
    /\ UNCHANGED <<baseVars, adapterVars, now, disk, refresh, est>>

\* getProvider settles with the adapter: the model is determined; with
\* --max-cost the pricing is asked for, without it the request is dispatched.
providerReady ==
    /\ command.pc = "getProvider"
    /\ LET providerId == meta(command.cls).id
           c == [command EXCEPT
                    !.fullModel = fullModel(providerId, configuredTextModel(providerId))]
       IN  IF costChecked(command.maxCost)
           THEN IF ~command.hasKey
                THEN /\ command' = [c EXCEPT !.pc = "failed", !.guard = "failed",
                                       !.error = "Cost checking requires OpenRouter API key"]
                     /\ UNCHANGED refresh
                ELSE /\ command' = [c EXCEPT !.pc = "pricing"]
                     /\ refresh' = [refresh EXCEPT ![1] = pricingAvailable(@)]
           ELSE /\ command' = dispatch(c)
                /\ UNCHANGED refresh
    /\ UNCHANGED <<baseVars, adapterVars, now, disk, est>>

\* A catch that goes on to the request without a price.
onPricingError_dispatching(c) == dispatch(c)

\* catch (error) { throw new CLIError(`Failed to fetch pricing: ...`) }
onPricingError(c) ==
    [c EXCEPT !.pc = "failed", !.guard = "failed", !.error = "Failed to fetch pricing"]

\* ensurePricingAvailable settles: with an error the command fails; with
\* the cache the cost is estimated and checked against the ceiling, and the
\* request is dispatched if checkCostLimit returns.
pricingSettled ==
    /\ command.pc = "pricing"
    /\ refresh[1].pc \in {"returned", "failed"}
    /\ IF refresh[1].pc = "failed"
       THEN command' = onPricingError(command)
       ELSE LET maxTokens == IF falsy(command.maxTokens)
                             THEN 1000 ELSE parseInt(command.maxTokens)
                estimate == estimateCost(command.fullModel, command.inputTokens,
                                         maxTokens, refresh[1].result)
                c == [command EXCEPT !.estimate = estimate, !.guardRuns = @ + 1]
            IN  IF exceeds(estimate, parseFloat(command.maxCost))
                THEN command' = [c EXCEPT !.pc = "failed", !.guard = "failed",
                                    !.error = "Cost limit exceeded"]
                ELSE command' = dispatch([c EXCEPT !.guard = "passed"])
    /\ UNCHANGED <<baseVars, adapterVars, now, disk, refresh, est>>

\* The generation settles: the response is printed, or the error ends the
\* command.
generationSettles(ok) ==
    /\ command.pc = "generating"
    /\ command' = [command EXCEPT !.pc = IF ok THEN "done" ELSE "failed",
                      !.error = IF ok THEN "none" ELSE "generation failed"]
    /\ UNCHANGED <<baseVars, adapterVars, now, disk, refresh, est>>

(***************************************************************************)
(* The adapters' handling of a 2xx response, from the parsed body to the   *)
(* GenerationResponse they return or the error they throw, with the files  *)
(* they save; the error formatter; and validateCredentials.  A path is a   *)
(* sequence of pieces, each "." or "/" or a run of other characters.       *)
(***************************************************************************)
\* Results one response may carry.
MaxResults == 2

\* request.outputPath: absent, with an extension, without one, and with a
\* dot in a directory name only.
NoPath == <<>>
OutputPaths ==
    {NoPath, <<"out", ".", "png">>, <<"out">>, <<"shots", ".", "v2", "/", "out">>}

\* The non-streaming generation methods that read a response.
ResponseMethods == {"generateText", "generateImage", "generateAudio"}

\* The bodies of a 2xx response, by what the method looks for in them.
\* Text: no choices/candidates array ("missing"), an array with no element
\* ("empty"), a first element without text ("nocontent"), with the text ""
\* ("emptytext"), with a text ("text").  Image: no array ("missing"), an
\* array of n results ("results"); for OpenRouter no message ("missing"), n
\* images that are data URLs ("images") or http URLs ("urls"), n content
\* parts that are data URLs ("parts"), a content string with a data URL
\* ("content"), a message with neither ("nothing").  Any: not JSON.
Shapes(cls, name) ==
    CASE name = "generateText" ->
           {"missing", "empty", "nocontent", "emptytext", "text", "notjson"}
      [] name = "generateImage" /\ cls = "OpenRouterProvider" ->
           {"missing", "images", "urls", "parts", "content", "nothing", "notjson"}
      [] name = "generateImage" -> {"missing", "results", "notjson"}
      [] name = "generateAudio" -> {"bytes"}

AllShapes == UNION {Shapes(cls, name) : cls \in Classes, name \in ResponseMethods}

\* The shapes that carry a number of results.
Counted == {"results", "images", "urls", "parts"}

\* A GenerationResponse: data is "undefined" where the field is absent or
\* undefined, else the kind of the payload; text is a string payload,
\* results the filePath of each result of an array payload.
GenerationResponse(success, data, text, results, error) ==
    [success |-> success, data |-> data, text |-> text, results |-> results,
     error |-> error]

NoResponse == GenerationResponse(FALSE, "undefined", "", <<>>, "undefined")

\* No response handled.
NoGeneration ==
    [pc |-> "idle", cls |-> "none", name |-> "none", shape |-> "none", n |-> 0,
     outputPath |-> NoPath, returned |-> FALSE, response |-> NoResponse,
     thrown |-> NoError, writes |-> <<>>]

\* The index of the last "." of a path that has at least one piece after
\* it, none of them a "."; 0 where the path has none: the match of
\* /(\.[^.]+)$/.
extensionAt(path) ==
    LET dots == {i \in 1..Len(path) : path[i] = "."}
    IN  IF dots = {} THEN 0
        ELSE LET d == CHOOSE i \in dots : \A j \in dots : j <= i
             IN  IF d = Len(path) THEN 0 ELSE d

\* request.outputPath.replace(/(\.[^.]+)$/, `_${index}$1`)
replace(path, index) ==
    LET d == extensionAt(path)
    IN  IF d = 0 THEN path
        ELSE SubSeq(path, 1, d - 1) \o <<"_" \o ToString(index)>> \o SubSeq(path, d, Len(path))

\* Filenames that are suffixed whatever the number of results.
filenameOf_always(path, count, index) == replace(path, index)

\* data.data.length > 1 ? request.outputPath.replace(...) : request.outputPath
filenameOf(path, count, index) ==
    IF count > 1 THEN replace(path, index) ELSE path

\* saveMedia(data, {directory: ".", filename}): the path it writes and returns.
saveMedia(filename) == filename

\* The results of OpenAI's and Google's generateImage: the file of each of
\* the n items, saved where the request has an output path.
mapped(outputPath, n) ==
    [i \in 1..n |-> IF outputPath # NoPath
                    THEN saveMedia(filenameOf(outputPath, n, i - 1)) ELSE NoPath]

\* The results of OpenRouter's generateImage from n data URLs: each saved
\* under request.outputPath.
pushed(outputPath, n) ==
    [i \in 1..n |-> IF outputPath # NoPath THEN saveMedia(outputPath) ELSE NoPath]

\* The files a sequence of results names.
written(results) == SelectSeq(results, LAMBDA path : path # NoPath)

\* What a method does with the body: the response it returns, or the error
\* it throws, and the files it has written.
Returned(g, response, writes) ==
    [g EXCEPT !.pc = "done", !.returned = TRUE, !.response = response, !.writes = writes]

Thrown(g, error, writes) ==
    [g EXCEPT !.pc = "done", !.thrown = error, !.writes = writes]

TypeError(message) == Error("TypeError", message, "none", NoValue, 0)

SyntaxError == Error("SyntaxError", "JSON Parse error", "none", NoValue, 0)

\* An adapter without the check of the response's shape.
shapeChecked_never(cls, name) == FALSE

\* Whether the method tests the body for the shape it reads.
shapeChecked(cls, name) ==
    CASE cls = "OpenAIProvider" -> FALSE
      [] cls = "GoogleProvider" -> name \in {"generateText", "generateImage"}
      [] cls = "OpenRouterProvider" -> name \in {"generateText", "generateImage"}

\* generateText after `await response.json()`.
textResponse(g) ==
    LET invalid == ProviderError("Invalid response", meta(g.cls).id, NoValue, 0)
        success(text) == GenerationResponse(TRUE, "string", text, <<>>, "undefined")
    IN  IF g.shape = "notjson" THEN Thrown(g, SyntaxError, <<>>)
        ELSE IF shapeChecked(g.cls, g.name)
        THEN \* !data.candidates?.[0]?.content?.parts?.[0]?.text,
             \* !data.choices?.[0]?.message?.content
             IF g.shape = "text" THEN Returned(g, success("Hi"), <<>>)
             ELSE Thrown(g, invalid, <<>>)
        ELSE \* data.choices[0]!.message.content
             CASE g.shape \in {"missing", "empty"} ->
                    Thrown(g, TypeError("undefined is not an object"), <<>>)
               [] g.shape = "nocontent" ->
                    Returned(g, GenerationResponse(TRUE, "undefined", "", <<>>, "undefined"), <<>>)
               [] g.shape = "emptytext" -> Returned(g, success(""), <<>>)
               [] g.shape = "text" -> Returned(g, success("Hi"), <<>>)

\* generateImage after `await response.json()`.
imageResponse(g) ==
    LET id == meta(g.cls).id
        success(results) == GenerationResponse(TRUE, "array", "", results, "undefined")
    IN  IF g.shape = "notjson" THEN Thrown(g, SyntaxError, <<>>)
        ELSE IF g.cls = "OpenRouterProvider"
        THEN LET results ==
                   CASE g.shape \in {"images", "parts"} -> pushed(g.outputPath, g.n)
                     [] g.shape = "urls" -> [i \in 1..g.n |-> NoPath]
                     [] g.shape = "content" -> pushed(g.outputPath, 1)
                     [] OTHER -> <<>>
             IN  IF g.shape = "missing"
                 THEN Thrown(g, ProviderError("Invalid response", id, NoValue, 0), <<>>)
                 ELSE IF Len(results) = 0
                 THEN Thrown(g, ProviderError("No image found", id, NoValue, 0), <<>>)
                 ELSE Returned(g, success(results), written(results))
        ELSE IF g.shape = "missing"
        THEN IF shapeChecked(g.cls, g.name)
             THEN \* !data.predictions
                  Thrown(g, ProviderError("Invalid response", id, NoValue, 0), <<>>)
             ELSE \* data.data.map
                  Thrown(g, TypeError("undefined is not an object"), <<>>)
        ELSE LET results == mapped(g.outputPath, g.n)
             IN  Returned(g, success(results), written(results))

\* generateAudio after `await response.arrayBuffer()`: the bytes are saved
\* under the output path, or under a name made of the time in ./output.
audioResponse(g) ==
    LET filePath == IF g.outputPath # NoPath THEN saveMedia(g.outputPath)
                    ELSE <<".", "/", "output", "/", "audio_", ToString(now), ".", "mp3">>
    IN  Returned(g, GenerationResponse(TRUE, "object", "", <<filePath>>, "undefined"),
                 <<filePath>>)

\* The body of the 2xx response fetchWithRetry returned is read, and the
\* method returns or throws.
responseSettles(cls, name, shape, n, outputPath) ==
    /\ gen.pc = "idle"
    /\ implements(cls, name)
    /\ shape \in Shapes(cls, name)
    /\ n > 0 => shape \in Counted
    /\ outputPath # NoPath => name # "generateText"
    /\ LET g == [NoGeneration EXCEPT !.cls = cls, !.name = name, !.shape = shape,
                    !.n = n, !.outputPath = outputPath]
       IN  gen' = CASE name = "generateText" -> textResponse(g)
                    [] name = "generateImage" -> imageResponse(g)
                    [] name = "generateAudio" -> audioResponse(g)
    /\ UNCHANGED <<baseVars, commandVars, cred>>

\* The messages of the errors the CLI formats.
ErrorMessages == {"", "Cost limit exceeded", "API error: 500"}

\* formatError(error, format): the GenerationResponse it builds.
formatError(message) ==
    /\ gen.pc = "idle"
    /\ gen' = [NoGeneration EXCEPT !.pc = "done", !.name = "formatError",
                  !.returned = TRUE,
                  !.response = GenerationResponse(FALSE, "undefined", "", <<>>, message)]
    /\ UNCHANGED <<baseVars, commandVars, cred>>

\* No validateCredentials call made.
NoValidation ==
    [pc |-> "idle", cls |-> "none", initialized |-> FALSE, fetches |-> 0,
     outcome |-> NoOutcome, result |-> "none", thrown |-> NoError]

\* validateCredentials() to its await of the fetch: ensureInitialized is
\* outside the try.
validateCredentials(cls, initialized) ==
    /\ cred.pc = "idle"
    /\ LET a == Adapter(cls, initialized, "c0")
           v == [NoValidation EXCEPT !.cls = cls, !.initialized = initialized]
       IN  IF ~ensureInitialized(a)
           THEN cred' = [v EXCEPT !.pc = "done",
                            !.thrown = ProviderError("not initialized", meta(cls).id, NoValue, 0)]
           ELSE cred' = [v EXCEPT !.pc = "fetch", !.fetches = @ + 1]
    /\ UNCHANGED <<baseVars, commandVars, gen>>

\* A validation that lets the failure of the fetch through.
validated_rethrowing(v, outcome) ==
    IF outcome.kind = "network"
    THEN [v EXCEPT !.pc = "done", !.outcome = outcome,
                   !.thrown = TypeError("fetch failed")]
    ELSE [v EXCEPT !.pc = "done", !.outcome = outcome,
                   !.result = IF outcome.kind = "ok" THEN "true" ELSE "false"]

\* try { ... return response.ok } catch { return false }
validated(v, outcome) ==
    [v EXCEPT !.pc = "done", !.outcome = outcome,
              !.result = IF outcome.kind = "ok" THEN "true" ELSE "false"]

\* The fetch of validateCredentials settles.
credentialsSettle(outcome) ==
    /\ cred.pc = "fetch"
    /\ cred' = validated(cred, outcome)
    /\ UNCHANGED <<baseVars, commandVars, gen>>

(***************************************************************************)
(* The request of a text generation: the body generateText and             *)
(* generateTextStream send for one TextGenerationRequest, and the model    *)
(* id the generate-text command prices for it.                             *)
(***************************************************************************)
\* --model and request.model: absent, empty, or a model.
OptionModels == {"undefined", "", "m1"}

\* request.systemPrompt, request.maxTokens, request.temperature.
SystemPrompts == {"undefined", "", "Be brief"}
MaxTokensValues == {NoValue, 1000}
Temperatures == {"undefined", "0.2"}

\* A TextGenerationRequest.
TextGenerationRequest(model, systemPrompt, maxTokens, temperature) ==
    [prompt |-> "Hello", model |-> model, systemPrompt |-> systemPrompt,
     maxTokens |-> maxTokens, temperature |-> temperature]

\* Whether the adapter's generateTextStream puts request.systemPrompt in
\* the messages: Google's sends `contents` with the prompt only.
streamsSystemPrompt(cls) == cls # "GoogleProvider"

\* The messages (Google: contents) of the body: the system prompt, where
\* one is given and the method sends it, then the prompt.  OpenAI and
\* OpenRouter give the system prompt the role "system", Google "user".
messagesOf(cls, name, request) ==
    LET system == [role |-> IF cls = "GoogleProvider" THEN "user" ELSE "system",
                   content |-> request.systemPrompt]
        user == [role |-> "user", content |-> request.prompt]
    IN  IF ~falsy(request.systemPrompt)
           /\ (name = "generateText" \/ streamsSystemPrompt(cls))
        THEN <<system, user>> ELSE <<user>>

\* The request a text method sends: the model (Google: in the URL), the
\* messages, the output token limit, the temperature, and the streaming
\* flag (Google: the streamGenerateContent endpoint).
requestBody(a, name, request) ==
    [model |-> methodModel(a, name, request.model),
     messages |-> messagesOf(a.cls, name, request),
     maxTokens |-> request.maxTokens,
     temperature |-> request.temperature,
     stream |-> name = "generateTextStream"]

\* options.model ?? providerConfig.models?.text
\*   ?? provider.getModels("text")[0] ?? "unknown"
commandModel(cls, optionsModel, config) ==
    IF optionsModel # "undefined" THEN optionsModel
    ELSE IF ProviderConfig(config).text # "undefined" THEN ProviderConfig(config).text
    ELSE IF firstModel(cls, "text") # "undefined" THEN firstModel(cls, "text")
    ELSE "unknown"

\* No request built.
NoRequests ==
    [pc |-> "idle", cls |-> "none", config |-> "undefined",
     request |-> TextGenerationRequest("undefined", "undefined", NoValue, "undefined"),
     priced |-> "none",
     text |-> [model |-> "none", messages |-> <<>>, maxTokens |-> NoValue,
               temperature |-> "undefined", stream |-> FALSE],
     streaming |-> [model |-> "none", messages |-> <<>>, maxTokens |-> NoValue,
                    temperature |-> "undefined", stream |-> FALSE]]

\* generate-text's request on an initialized adapter: the model id the
\* command prices, and the body each text method sends for the request.
textRequests(cls, config, request) ==
    /\ req.pc = "idle"
    /\ LET a == Adapter(cls, TRUE, config)
       IN  req' = [pc |-> "done", cls |-> cls, config |-> config, request |-> request,
                   priced |-> fullModel(meta(cls).id, commandModel(cls, request.model, config)),
                   text |-> requestBody(a, "generateText", request),
                   streaming |-> requestBody(a, "generateTextStream", request)]
    /\ UNCHANGED <<registryVars, callVars, streamVars, method, cost,
                   commandVars, adapterVars, info, persisted>>


(***************************************************************************)
(* ProviderRegistry: getProviderInfo and findProvidersForCapability.       *)
(***************************************************************************)
\* The keys of this.factories in insertion order: the constructor's three,
\* then the id registered later.  An overwrite keeps the key's place.
FactoryOrder == <<"openai", "google", "openrouter", "custom">>

\* The capabilities the callers of findProvidersForCapability ask for.
DiscoveryCapabilities == {"text", "video"}

\* No meta: getProviderInfo's undefined.
NoMeta == [id |-> "none", capabilities |-> {}]

\* No discovery call made.  `cached` tells whether the id described had a
\* cached adapter when the call was made.
NoDiscovery ==
    [op |-> "none", arg |-> "none", found |-> FALSE, meta |-> NoMeta, ids |-> <<>>,
     cached |-> FALSE]

\* A discovery call that evicts the cached adapter of the id it describes.
cacheAfterDiscovery_evicting(id) == [providers EXCEPT ![id] = 0]

\* this.providers after a discovery call on id: factory() builds an
\* adapter the call reads and drops; this.providers is never written.
cacheAfterDiscovery(id) == providers

\* getProviderInfo(id): undefined for an unregistered id, else the meta of
\* an adapter the factory builds for this call.
getProviderInfo(id) ==
    /\ info' = [op |-> "getProviderInfo", arg |-> id,
                found |-> factoryFor(id) # "none",
                meta |-> IF factoryFor(id) = "none" THEN NoMeta
                         ELSE meta(NewAdapter(factoryFor(id)).cls),
                ids |-> <<>>,
                cached |-> cachedProvider(id) # 0]
    /\ providers' = cacheAfterDiscovery(id)
    /\ UNCHANGED <<factories, adapters, getCall, lastGet, constructed, returned,
                   firstReturned, overlapped>>
    /\ UNCHANGED <<callVars, streamVars, method, cost, commandVars, adapterVars,
                   req, persisted>>

\* The ids, among the first n keys, whose factory builds an adapter that
\* supports the capability.
RECURSIVE supporting(_, _)
supporting(n, capability) ==
    IF n = 0 THEN <<>>
    ELSE LET id == FactoryOrder[n]
         IN  IF factoryFor(id) # "none" /\ supports(NewAdapter(factoryFor(id)), capability)
             THEN Append(supporting(n - 1, capability), id)
             ELSE supporting(n - 1, capability)

\* findProvidersForCapability(capability)
findProvidersForCapability(capability) ==
    /\ info' = [op |-> "findProvidersForCapability", arg |-> capability,
                found |-> TRUE, meta |-> NoMeta,
                ids |-> supporting(Len(FactoryOrder), capability),
                cached |-> FALSE]
    /\ UNCHANGED registryVars
    /\ UNCHANGED <<callVars, streamVars, method, cost, commandVars, adapterVars,
                   req, persisted>>

(***************************************************************************)
(* The registry as constructed: three factories, no adapter.               *)
(***************************************************************************)
Init ==
    /\ factories = [id \in Ids |->
                      CASE id = "openai" -> "OpenAIProvider"
                        [] id = "google" -> "GoogleProvider"
                        [] id = "openrouter" -> "OpenRouterProvider"
                        [] OTHER -> "none"]
    /\ providers = [id \in Ids |-> 0]
    /\ adapters = <<>>
    /\ getCall = [c \in Callers |-> NoCall]
    /\ lastGet = NoGet
    /\ constructed = [id \in Ids |-> {}]
    /\ returned = [id \in Ids |-> {}]
    /\ firstReturned = [id \in Ids |-> 0]
    /\ overlapped = {}
    /\ call = NoCapabilityCall
    /\ clock = 0
    /\ inflight = {}
    /\ attempts = 0
    /\ lastOutcome = NoOutcome
    /\ sleeps = <<>>
    /\ streamCall = NoStreamCall
    /\ transport = NoTransport
    /\ decoder = NoDecoder
    /\ yielded = <<>>
    /\ method = NoMethodCall
    /\ cost = NoCostCheck
    /\ now = Genesis
    /\ disk = NoCache
    /\ refresh = [t \in Refreshers |-> NoRefresh]
    /\ est = NoEstimateCall
    /\ command = NoCommand
    /\ gen = NoGeneration
    /\ cred = NoValidation
    /\ req = NoRequests
    /\ info = NoDiscovery
    /\ persisted = NoConfigFile

\* The registry's callers.  A call is taken by the first caller that has
\* none suspended: callers differ in nothing else.
Next ==
    \/ \E r \in Registrations : registerFactory(r[1], r[2])
    \/ \E c \in Callers, id \in Ids, config \in RegistryConfigs \cup {"undefined"} :
          /\ \A d \in 1..(c - 1) : getCall[d].pc # "idle"
          /\ getProvider(c, id, config)
    \/ \E c \in Callers : getProviderResume(c)

\* One task that gets adapters from the registry and calls generateText.
NextCall ==
    \/ /\ call.pc = "idle"
       /\ \E id \in Ids, config \in ConfigNames \cup {"undefined"} : getProvider(1, id, config)
    \/ getProviderResume(1)
    \/ /\ getCall[1].pc # "awaitInit"
       /\ \E inst \in 1..MaxAdapters, m \in RequestModels : generateText(inst, m)
    \/ callReturns
    \/ \E outcome \in FetchOutcomes, latency \in Latencies : fetchSettles(outcome, latency)
    \/ fetchTimesOut
    \/ sleepEnds
    \/ \E body \in Bodies : jsonSettles(body)
    \/ bodyTimesOut

Spec == Init /\ [][Next]_vars

SpecCall == Init /\ [][NextCall]_vars

\* One streaming text call and the consumption of its stream.
NextStream ==
    \/ \E cls \in Classes, initialized \in BOOLEAN, config \in StreamConfigs,
          m \in RequestModels : generateTextStream(cls, initialized, config, m)
    \/ \E outcome \in FetchOutcomes, text \in Texts : streamFetchSettles(outcome, text)
    \/ streamNext
    \/ \E n \in 1..(MaxLines * (Len(DataPrefix) + 3)) : readSettles(n)
    \/ readDone
    \/ readFails
    \/ consumerNext
    \/ consumerReturns

SpecStream == Init /\ [][NextStream]_vars

\* One streaming call whose response body ends without a newline.
NextTail ==
    \/ \E cls \in Classes, config \in StreamConfigs, m \in RequestModels :
          generateTextStream(cls, TRUE, config, m)
    \/ \E text \in TailTexts : streamFetchSettlesUnterminated(text)
    \/ streamNext
    \/ \E n \in 1..(MaxLines * (Len(DataPrefix) + 3)) : readSettles(n)
    \/ readDone
    \/ readFails
    \/ consumerNext
    \/ consumerReturns

SpecTail == Init /\ [][NextTail]_vars

\* One call of a capability method on an adapter.
NextMethod ==
    \/ \E cls \in Classes, name \in Methods, initialized \in BOOLEAN,
          config \in ConfigNames, m \in RequestModels, outputPath \in BOOLEAN :
          invoke(cls, name, initialized, config, m, outputPath)
    \/ \E ok \in BOOLEAN : methodSettles(ok)

SpecMethod == Init /\ [][NextMethod]_vars

\* One call of the cost guard.
NextCost ==
    \E estimate \in CostEstimates, maxCost \in Ceilings : checkCostLimit(estimate, maxCost)

SpecCost == Init /\ [][NextCost]_vars

\* One process that uses the pricing cache of the config file the user
\* left, at any of the instants.
NextPricing ==
    \/ \E instant \in Instants : tick(instant)
    \/ \E cache \in ConfigFiles \cup {NoCache}, file \in SettingsFiles : configFile(cache, file)
    \/ loadConfig(1)
    \/ ensurePricingAvailable(1)
    \/ \E outcome \in FetchOutcomes : pricingFetchSettles(1, outcome)
    \/ \E data \in Listings : pricingJsonSettles(1, data)
    \/ pricingJsonFails(1)
    \/ pricingConfigLoaded(1)
    \/ pricingMkdirSettles(1)
    \/ pricingWriteSettles(1)

SpecPricing == Init /\ [][NextPricing]_vars

\* The instants and the lists of the concurrent refreshes: two instants,
\* and the lists of one model.
RefreshInstants == {Genesis, Genesis + 1}
RefreshListings == {data \in Listings : Cardinality(DOMAIN modelsOf(data)) = 1}

\* Processes that use the pricing cache of one config file at the same
\* time.  A process starts only after the ones before it: they differ in
\* nothing else.
NextRefresh ==
    \/ \E instant \in RefreshInstants : tick(instant)
    \/ \E t \in Refreshers :
          /\ \A u \in 1..(t - 1) : refresh[u].pc # "idle"
          /\ loadConfig(t)
    \/ \E t \in Refreshers : ensurePricingAvailable(t)
    \/ \E t \in Refreshers, outcome \in FetchOutcomes : pricingFetchSettles(t, outcome)
    \/ \E t \in Refreshers, data \in RefreshListings : pricingJsonSettles(t, data)
    \/ \E t \in Refreshers : pricingJsonFails(t)
    \/ \E t \in Refreshers : pricingConfigLoaded(t)
    \/ \E t \in Refreshers : pricingMkdirSettles(t)
    \/ \E t \in Refreshers : pricingWriteSettles(t)

SpecRefresh == Init /\ [][NextRefresh]_vars

\* One call of estimateCost.
NextEstimate ==
    \E model \in ModelIds, inputTokens \in TokenCounts,
       expectedOutputTokens \in OutputTokenCounts, cache \in EstimateCaches :
       estimateCostCall(model, inputTokens, expectedOutputTokens, cache)

SpecEstimate == Init /\ [][NextEstimate]_vars

\* One run of the generate-text command.
NextCommand ==
    \/ \E cache \in ConfigFiles : configFile(cache, DEFAULT_CONFIG)
    \/ loadConfig(1)
    \/ \E cls \in Classes, maxCost \in MaxCostOptions, maxTokens \in MaxTokensOptions,
          stream \in BOOLEAN, hasKey \in BOOLEAN, ceiling \in ConfiguredCeilings :
          handleGenerateText(cls, maxCost, maxTokens, stream, hasKey, ceiling, 100)
    \/ providerReady
    \/ \E outcome \in FetchOutcomes : pricingFetchSettles(1, outcome)
    \/ \E data \in Listings : pricingJsonSettles(1, data)
    \/ pricingJsonFails(1)
    \/ pricingConfigLoaded(1)
    \/ pricingMkdirSettles(1)
    \/ pricingWriteSettles(1)
    \/ pricingSettled
    \/ \E ok \in BOOLEAN : generationSettles(ok)

SpecCommand == Init /\ [][NextCommand]_vars

\* One 2xx response handled by an adapter or one error formatted, and one
\* validation of credentials.
NextAdapter ==
    \/ \E cls \in Classes, name \in ResponseMethods, shape \in AllShapes,
          n \in 0..MaxResults, outputPath \in OutputPaths :
          responseSettles(cls, name, shape, n, outputPath)
    \/ \E message \in ErrorMessages : formatError(message)
    \/ \E cls \in Classes, initialized \in BOOLEAN : validateCredentials(cls, initialized)
    \/ \E outcome \in FetchOutcomes : credentialsSettle(outcome)

SpecAdapter == Init /\ [][NextAdapter]_vars

\* One text request, as the command prices it and as each text method
\* sends it.
NextRequest ==
    \E cls \in Classes, config \in ConfigNames, model \in OptionModels,
       systemPrompt \in SystemPrompts, maxTokens \in MaxTokensValues,
       temperature \in Temperatures :
       textRequests(cls, config,
                    TextGenerationRequest(model, systemPrompt, maxTokens, temperature))

SpecRequest == Init /\ [][NextRequest]_vars

\* One task that registers factories, gets adapters and asks the registry
\* what is registered.
NextDiscovery ==
    \/ \E r \in Registrations : registerFactory(r[1], r[2])
    \/ \E id \in Ids, config \in {"c1", "undefined"} : getProvider(1, id, config)
    \/ getProviderResume(1)
    \/ \E id \in Ids : getProviderInfo(id)
    \/ \E capability \in DiscoveryCapabilities : findProvidersForCapability(capability)

SpecDiscovery == Init /\ [][NextDiscovery]_vars

(***************************************************************************)
(* The registry's claims.                                                  *)
(***************************************************************************)
\* C1: for every provider id, getProvider constructs at most one adapter
\* over the process lifetime, also when two getProvider(id, config) calls are
\* outstanding together: the factory runs once for the id and every caller
\* receives the same adapter.
C1_OneAdapterPerId ==
    \A id \in Ids :
        /\ Cardinality(constructed[id]) <= 1
        /\ Cardinality(returned[id]) <= 1

\* C2: for every id whose getProvider calls completed one after the other
\* (none started while another was suspended), with or without a config,
\* every call returned the adapter the first completed call returned.
C2_SequentialGetsIdentical ==
    \A id \in Ids \ overlapped :
        /\ returned[id] \subseteq {firstReturned[id]}
        /\ (lastGet.id = id /\ lastGet.result = "ok") => lastGet.inst = firstReturned[id]

\* A getProvider(id) without a config has returned, to a caller that did not
\* overlap another, the adapter an earlier getProvider(id, config) initialized.
C2_Witness ==
    /\ lastGet.result = "ok"
    /\ lastGet.id \notin overlapped
    /\ lastGet.config = "undefined"
    /\ adapters[lastGet.inst].initialized
    /\ lastGet.inst = firstReturned[lastGet.id]

\* C3: an initialized adapter keeps its stored config and its initialized
\* flag in every step: a later getProvider(id, c2) with another config does
\* not initialize it again, and no step of a capability call changes it.
C3_FirstInitializationWins ==
    [][\A n \in 1..Len(adapters) :
          adapters[n].initialized =>
              /\ Len(adapters') >= n
              /\ adapters'[n].initialized
              /\ adapters'[n].config = adapters[n].config]_vars

\* getProvider(id, c2) has returned the adapter initialized with another
\* config c1, and a generateText call on it has since succeeded.
C3_Witness ==
    /\ lastGet.result = "ok"
    /\ lastGet.config \in ConfigNames
    /\ adapters[lastGet.inst].initialized
    /\ adapters[lastGet.inst].config # lastGet.config
    /\ call.pc = "done"
    /\ call.inst = lastGet.inst
    /\ call.result = "success"

\* C4: in every registry state, getProvider(id) for an id with no registered
\* factory fails with the unknown-provider error and leaves the instance
\* cache, the adapters and the registered factories as they were.
C4_UnknownProviderFails ==
    [][\A c \in Callers, id \in Ids, config \in RegistryConfigs \cup {"undefined"} :
          (factories[id] = "none" /\ getProvider(c, id, config)) =>
              /\ lastGet'.result = "Unknown provider"
              /\ lastGet'.id = id
              /\ providers' = providers
              /\ factories' = factories
              /\ adapters' = adapters
              /\ getCall' = getCall]_vars

\* getProvider has failed for an unregistered id in a registry that holds a
\* cached adapter.
C4_Witness ==
    /\ lastGet.result = "Unknown provider"
    /\ factories[lastGet.id] = "none"
    /\ \E id \in Ids : providers[id] # 0

(***************************************************************************)
(* The retry executor's claims. N is the call's maximum attempt count.     *)
(***************************************************************************)
\* A capability call that has reached fetchWithRetry.
InRetry == call.pc # "idle" /\ adapters[call.inst].initialized

\* The configured maximum attempt count of the call's adapter, 3 by default.
ConfiguredAttempts ==
    LET n == ProviderConfig(adapters[call.inst].config).maxRetries
    IN  IF n = NoValue THEN 3 ELSE n

\* The configured timeout of the call's adapter, 60 seconds by default.
ConfiguredTimeout ==
    LET t == ProviderConfig(adapters[call.inst].config).timeout
    IN  IF t = NoValue THEN 60000 ELSE t

\* The latest attempt failed: a non-2xx response, a thrown error or a timeout.
LastAttemptFailed == lastOutcome.kind \in {"status", "network", "timeout"}

\* C5: in one fetchWithRetry call with maximum attempt count N, the HTTP
\* attempts never exceed N; once an attempt gets a 2xx response the call
\* returns that response to the adapter and issues no attempt after it.
C5_AttemptsBounded ==
    InRetry =>
        /\ attempts <= ConfiguredAttempts
        /\ lastOutcome.kind = "ok" =>
              /\ call.pc \in {"awaitJson", "done"}
              /\ attempts = call.i + 1
              /\ inflight = {}
        /\ (call.pc = "awaitJson" \/ call.result = "success") => lastOutcome.kind = "ok"

\* With N = 3, attempts 1 and 2 failed and attempt 3 got the 2xx response
\* the call returned.
C5_Witness ==
    /\ InRetry
    /\ ConfiguredAttempts = 3
    /\ call.pc = "done"
    /\ call.result = "success"
    /\ attempts = 3
    /\ Len(sleeps) = 2

\* The error attempt k observed, from how the attempt ended.
ObservedError(k) ==
    CASE lastOutcome.kind = "status" ->
           [name |-> "ProviderError", message |-> "API error",
            provider |-> meta(adapters[call.inst].cls).id,
            status |-> lastOutcome.status, attempt |-> k]
      [] lastOutcome.kind = "network" ->
           [name |-> "FetchError", message |-> "fetch failed", provider |-> "none",
            status |-> NoValue, attempt |-> k]
      [] lastOutcome.kind = "timeout" ->
           [name |-> "TimeoutError", message |-> "timed out", provider |-> "none",
            status |-> NoValue, attempt |-> k]

\* C6: when all N >= 1 attempts have failed, the call fails with exactly the
\* error attempt N observed (with attempt N's HTTP status when that was a
\* non-2xx response), not an earlier attempt's error and not a wrapped one;
\* and a call fails on a failed attempt only when that attempt was attempt N.
C6_LastErrorRethrown ==
    (InRetry /\ call.pc = "done" /\ LastAttemptFailed) =>
        /\ attempts = ConfiguredAttempts
        /\ call.result = "error"
        /\ call.error = ObservedError(ConfiguredAttempts)

\* All 3 attempts failed, the third with a 404 after an earlier timeout or
\* other failure, and the call failed with the third attempt's 404.
C6_Witness ==
    /\ InRetry
    /\ call.pc = "done"
    /\ attempts = 3
    /\ lastOutcome = [kind |-> "status", status |-> 404]
    /\ call.error.status = 404
    /\ call.error.attempt = 3

\* C7: the attempts of one call are strictly sequential: at most one
\* attempt is in flight at any time, none is in flight during a sleep, and
\* attempt k+1 starts only in the step that ends the backoff sleep following
\* the failure of attempt k.
C7_AttemptsSequential ==
    /\ [](/\ Cardinality(inflight) <= 1
          /\ (call.pc = "awaitFetch") <=> (inflight # {})
          /\ call.pc = "awaitFetch" => inflight = {attempts - 1})
    /\ [][(attempts >= 1 /\ attempts' = attempts + 1) =>
              /\ call.pc = "sleeping"
              /\ LastAttemptFailed
              /\ inflight = {}
              /\ clock' = call.wake
              /\ call.wake = clock + 1000 * attempts]_vars

\* Attempt 3 is in flight after attempts 1 and 2 failed and both sleeps ended.
C7_Witness ==
    /\ call.pc = "awaitFetch"
    /\ attempts = 3
    /\ inflight = {2}
    /\ Len(sleeps) = 2

\* C8: fetchWithRetry sleeps after every failed attempt but the last: the
\* k-th sleep of a call lasts k seconds (1 s after the first failed attempt,
\* 2 s after the second), and a call whose N attempts all fail has slept
\* exactly N-1 times.
C8_LinearBackoff ==
    InRetry =>
        /\ \A k \in 1..Len(sleeps) : sleeps[k] = 1000 * k
        /\ call.pc = "awaitFetch" => Len(sleeps) = attempts - 1
        /\ call.pc = "sleeping" => (Len(sleeps) = attempts /\ attempts < ConfiguredAttempts)
        /\ (call.pc = "done" /\ LastAttemptFailed) => Len(sleeps) = ConfiguredAttempts - 1

\* All 3 attempts failed and the call slept twice, 1 s and then 2 s.
C8_Witness ==
    /\ InRetry
    /\ call.pc = "done"
    /\ LastAttemptFailed
    /\ attempts = 3
    /\ sleeps = <<1000, 2000>>

\* C9: every attempt gets a fresh deadline, the configured timeout (60 s by
\* default) after the attempt's own start, whatever time earlier attempts
\* and sleeps took; an attempt that reaches its deadline is aborted then,
\* counts as one failed attempt, and ends the call only when it was attempt N.
C9_FreshDeadlinePerAttempt ==
    InRetry =>
        /\ call.pc = "awaitFetch" =>
              /\ call.attemptStart = clock
              /\ call.deadline = clock + ConfiguredTimeout
        /\ (lastOutcome.kind = "timeout" /\ call.pc \in {"sleeping", "done"}) =>
              clock = call.attemptStart + ConfiguredTimeout
        /\ (lastOutcome.kind = "timeout" /\ call.pc = "done") =>
              (attempts = ConfiguredAttempts /\ call.result = "error")
        /\ (lastOutcome.kind = "timeout" /\ attempts < ConfiguredAttempts) =>
              call.pc \in {"sleeping", "awaitFetch"}

\* Under the default timeout, attempt 3 is in flight with a full 60 s ahead
\* of it, after attempt 2 timed out more than 120 s into the call.
C9_Witness ==
    /\ InRetry
    /\ adapters[call.inst].config = "c3"
    /\ call.pc = "awaitFetch"
    /\ attempts = 3
    /\ lastOutcome.kind = "timeout"
    /\ clock > 120000
    /\ call.deadline = clock + 60000

\* C10: once an attempt has received a 2xx response, the call ends in the
\* step in which the adapter has read the body, with no further HTTP attempt
\* and no sleep; a body that is not JSON or lacks the expected shape makes
\* the call fail, after exactly the attempts made so far.
C10_NoRetryAfterSuccess ==
    [][/\ call.pc = "awaitJson" =>
              /\ call'.pc = "done"
              /\ attempts' = attempts
              /\ sleeps' = sleeps
              /\ inflight' = {}
       /\ \A body \in Bodies \ {"valid"} :
              jsonSettles(body) => (call'.result = "error" /\ call'.error.attempt = 0)]_vars

\* OpenRouter's generateText got a 2xx response without choices on attempt 2
\* of 3 and failed with "Invalid response" after 2 attempts.
C10_Witness ==
    /\ InRetry
    /\ adapters[call.inst].cls = "OpenRouterProvider"
    /\ ConfiguredAttempts = 3
    /\ call.pc = "done"
    /\ lastOutcome.kind = "ok"
    /\ call.result = "error"
    /\ call.error.message = "Invalid response"
    /\ attempts = 2

(***************************************************************************)
(* The streaming call's and the stream decoder's claims.                   *)
(***************************************************************************)
\* C11: a streaming text call issues exactly one HTTP request, in every
\* adapter and whatever maxRetries is configured: it never sleeps, and the
\* step in which its request settles ends the call, with the stream or, on
\* a non-2xx response or a thrown error, with the failure.
C11_StreamSingleRequest ==
    /\ [](/\ streamCall.requests <= 1
          /\ streamCall.sleeps = 0
          /\ (streamCall.pc = "awaitFetch" \/ streamCall.result = "stream")
                => streamCall.requests = 1)
    /\ [][streamCall.pc = "awaitFetch" =>
              /\ streamCall'.pc = "done"
              /\ streamCall'.requests = 1
              /\ streamCall'.sleeps = 0]_vars

\* A streaming call on an adapter whose maxRetries is absent (3 by default)
\* has failed on a 500 response after its one request.
C11_Witness ==
    /\ streamCall.pc = "done"
    /\ streamCall.result = "error"
    /\ streamCall.config = "c3"
    /\ streamCall.error.name = "ProviderError"
    /\ streamCall.error.status = 500
    /\ streamCall.requests = 1

\* The non-empty delta texts of the well-formed data lines of a text, in
\* transport order.
RECURSIVE DeltaTexts(_)
DeltaTexts(text) ==
    IF text = <<>> THEN <<>>
    ELSE (IF Head(text) = DataLine(<<"{Hi", "}">>) THEN <<"Hi">>
          ELSE IF Head(text) = DataLine(<<"{Yo", "}">>) THEN <<"Yo">>
          ELSE <<>>) \o DeltaTexts(Tail(text))

IsPrefix(s, t) == Len(s) <= Len(t) /\ SubSeq(t, 1, Len(s)) = s

\* C12: for a text of newline-terminated lines, however it is split into
\* reads, the chunks yielded are at every moment a prefix of the delta texts
\* of the text's well-formed data lines in transport order, and are exactly
\* those when the stream has ended at the source's completion.
C12_ChunksIndependentOfSplit ==
    /\ IsPrefix(yielded, DeltaTexts(transport.lines))
    /\ decoder.ending = "done" => yielded = DeltaTexts(transport.lines)

\* Two data lines were delivered one piece per read, so that reads ended
\* inside both "data: " prefixes and inside both payloads, and both chunks
\* were yielded in order.
C12_Witness ==
    /\ decoder.ending = "done"
    /\ yielded = <<"Hi", "Yo">>
    /\ decoder.reads = Len(Flatten(transport.lines)) + 1

\* C13: once the generator has acquired the reader it holds it while it
\* runs, has released it whenever it has ended (at the source's completion,
\* at a failed read, at the consumer's return), and issues no read after the
\* release.
C13_ReaderReleased ==
    /\ [](/\ decoder.pc = "finished" => decoder.reader = "released"
          /\ decoder.pc \in {"awaitRead", "atYield"} => decoder.reader = "locked")
    /\ [][decoder.reader = "released" =>
              /\ decoder'.reader = "released"
              /\ decoder'.reads = decoder.reads]_vars

\* The generator has ended at a failed read, after an earlier read had
\* completed, and the reader is released.
C13_Witness ==
    /\ decoder.ending = "error"
    /\ decoder.reader = "released"
    /\ decoder.reads >= 2
    /\ transport.failed

\* The complete lines among the pieces the completed reads delivered.
DeliveredLines ==
    split(SubSeq(Flatten(transport.lines), 1, transport.delivered), <<>>, <<>>).lines

\* C14: when a read of the underlying reader has failed, the generator has
\* ended with that error, and the consumer has received before it, in
\* order, the chunk of every data line the completed reads delivered whole.
C14_ReadErrorPropagates ==
    transport.failed =>
        /\ decoder.pc = "finished"
        /\ decoder.ending = "error"
        /\ decoder.error.name = "ReadError"
        /\ yielded = DeltaTexts(DeliveredLines)

\* The read failed after one whole data line and a part of the next had
\* been delivered: the consumer got the first line's chunk, then the error.
C14_Witness ==
    /\ transport.failed
    /\ decoder.ending = "error"
    /\ yielded = <<"Hi">>
    /\ transport.delivered > Len(DataLine(<<"{Hi", "}">>)) + 1
    /\ transport.rest # <<>>

\* A data line whose payload is not valid JSON.
Malformed == DataLine(<<"{Hi">>)

IsMalformed(line) == line = Malformed

IsSentinel(line) == line = Sentinel

\* C15: a data line whose payload is not valid JSON yields nothing and
\* raises nothing, and the stream goes on: no error reaches the consumer
\* unless a read failed, and at the source's completion the chunks are
\* those of the text without its malformed lines.
C15_MalformedLineSkipped ==
    /\ ~transport.failed => (decoder.ending # "error" /\ decoder.error = NoError)
    /\ (decoder.ending = "done" /\ \E k \in DOMAIN transport.lines :
                                      IsMalformed(transport.lines[k]))
          => yielded = DeltaTexts(SelectSeq(transport.lines, LAMBDA l : ~IsMalformed(l)))

\* A malformed data line came first and a well-formed one after it: the
\* stream ended at the source's completion with the second line's chunk only.
C15_Witness ==
    /\ transport.lines = <<Malformed, DataLine(<<"{Yo", "}">>)>>
    /\ decoder.ending = "done"
    /\ yielded = <<"Yo">>

\* C16: the sentinel line yields no chunk and does not end the stream: the
\* generator ends by completion only when the source has signalled it, all
\* of the body read, and the chunks then are those of the text without its
\* sentinel lines, the data lines after a sentinel included.
C16_SentinelDoesNotEndStream ==
    (decoder.ending = "done" /\ \E k \in DOMAIN transport.lines :
                                    IsSentinel(transport.lines[k]))
       => /\ transport.rest = <<>>
          /\ transport.delivered = Len(Flatten(transport.lines))
          /\ yielded = DeltaTexts(SelectSeq(transport.lines, LAMBDA l : ~IsSentinel(l)))

\* The sentinel came first and a data line after it, in the OpenRouter
\* adapter: the data line's chunk was yielded.
C16_Witness ==
    /\ streamCall.cls = "OpenRouterProvider"
    /\ transport.lines = <<Sentinel, DataLine(<<"{Hi", "}">>)>>
    /\ decoder.ending = "done"
    /\ yielded = <<"Hi">>

(***************************************************************************)
(* The capability methods' claims.                                         *)
(***************************************************************************)
\* The model the precedence gives: the request's model if supplied, else
\* the configured model of the capability, else the adapter's first built-in
\* model of the capability ("undefined": none).
Precedence(cls, capability, requestModel, config) ==
    IF requestModel # "undefined" THEN requestModel
    ELSE IF ProviderConfig(config)[capability] # "undefined"
         THEN ProviderConfig(config)[capability]
         ELSE firstModel(cls, capability)

\* C17: in every capability method of every adapter, the model placed in
\* the dispatched request, and the model the response's meta reports, is
\* the request's model if supplied, else the configured model of the
\* method's capability, else the adapter's first built-in model of it.
C17_ModelPrecedence ==
    (method.pc # "idle" /\ method.initialized) =>
        LET want == Precedence(method.cls, capabilityOf(method.name),
                               method.requestModel, method.config)
        IN  /\ method.dispatched => method.model = want
            /\ method.result \in {"success", "stream"} => method.metaModel = want

\* C18: a capability method fails with the unsupported-capability error if
\* and only if its adapter is initialized and the method's capability is
\* not among the adapter's declared capabilities; on an uninitialized
\* adapter it fails with the not-initialized error, the capability
\* supported or not.
C18_CapabilityCheckAfterInitCheck ==
    method.pc # "idle" =>
        /\ (method.result = "error" /\ method.error.message = "does not support")
             <=> (/\ method.initialized
                  /\ capabilityOf(method.name) \notin meta(method.cls).capabilities)
        /\ ~method.initialized =>
             (method.result = "error" /\ method.error.message = "not initialized")

\* generateVideo on an initialized Google adapter, whose capabilities
\* include video, has failed, and not with the unsupported-capability error.
C18_Witness ==
    /\ method.pc = "done"
    /\ method.name = "generateVideo"
    /\ method.initialized
    /\ method.result = "error"
    /\ method.error.message = "not yet fully implemented"

\* C19: every capability method called on an adapter that was not
\* initialized has failed with the not-initialized error, tagged with the
\* adapter's id, with no request dispatched and no file written.
C19_NotInitializedBeforeAnyEffect ==
    (method.pc # "idle" /\ ~method.initialized) =>
        /\ method.pc = "done"
        /\ method.result = "error"
        /\ method.error = ProviderError("not initialized", meta(method.cls).id, NoValue, 0)
        /\ ~method.dispatched
        /\ method.files = 0

\* generateAudio with an output path, on an OpenAI adapter that was not
\* initialized, has failed.
C19_Witness ==
    /\ method.pc = "done"
    /\ method.name = "generateAudio"
    /\ ~method.initialized
    /\ method.outputPath
    /\ method.error.message = "not initialized"

(***************************************************************************)
(* The cost guard's claim.                                                 *)
(***************************************************************************)
\* C20: checkCostLimit(estimate, ceiling) raises CostLimitExceededError,
\* carrying that estimate and that ceiling, if and only if the ceiling is
\* above 0 and the estimate's totalCost is above the ceiling; with ceiling
\* 0 it never raises, and with totalCost equal to the ceiling it does not.
C20_CostLimitRaisedIffExceeded ==
    cost.pc = "done" =>
        /\ cost.raised <=> (cost.maxCost > 0 /\ cost.estimate.totalCost > cost.maxCost)
        /\ cost.raised =>
             /\ cost.error.name = "CostLimitExceededError"
             /\ cost.error.estimate = cost.estimate
             /\ cost.error.maxCost = cost.maxCost
        /\ ~cost.raised => cost.error = NoCostError
        /\ cost.maxCost = 0 => ~cost.raised
        /\ cost.estimate.totalCost = cost.maxCost => ~cost.raised

\* The guard raised for a total cost of 155 ($0.0155) against a ceiling of
\* 100 ($0.01).
C20_Witness ==
    /\ cost.pc = "done"
    /\ cost.estimate.totalCost = 155
    /\ cost.maxCost = 100
    /\ cost.raised
    /\ cost.error.maxCost = 100

(***************************************************************************)
(* The generate-text command's claims, and the pricing's.                  *)
(***************************************************************************)
\* A cost ceiling is given with the command: --max-cost with an amount.
CeilingGiven == command.maxCost \notin {"undefined", ""}

\* C21: in generate-text with a cost ceiling given, the cost guard has
\* completed, once and with the estimate within the ceiling, before a
\* generation request (generateText or generateTextStream) is dispatched;
\* and where the guard fails (no pricing to be had, or the estimate above
\* the ceiling) the command has failed with no request dispatched, and
\* takes no further step: no request is dispatched later and the guard is
\* not run again.
C21_GuardBeforeDispatch ==
    /\ [](/\ command.dispatches <= 1
          /\ command.guardRuns <= 1
          /\ (CeilingGiven /\ command.dispatches > 0) =>
                 /\ command.guard = "passed"
                 /\ command.guardRuns = 1
                 /\ ~exceeds(command.estimate, parseFloat(command.maxCost))
          /\ command.guard = "failed" =>
                 /\ command.pc = "failed"
                 /\ command.dispatches = 0
                 /\ command.dispatched = "none")
    /\ [][command.guard = "failed" => command' = command]_vars

\* The guard has stopped a command whose estimate is above the ceiling.
C21_Witness ==
    /\ CeilingGiven
    /\ command.pc = "failed"
    /\ command.error = "Cost limit exceeded"
    /\ command.guardRuns = 1
    /\ command.estimate.totalCost > parseFloat(command.maxCost)
    /\ command.dispatches = 0

\* The estimateCost call's inputs: whether the model id is a key of the
\* cache, and the prices and the output tokens that the claim names.
Listed == est.cache.present /\ est.model \in DOMAIN est.cache.models

InputPrice == IF Listed THEN est.cache.models[est.model].input ELSE 10

OutputPrice == IF Listed THEN est.cache.models[est.model].output ELSE 30

AssumedOutputTokens ==
    IF est.expectedOutputTokens = NoValue THEN 1000 ELSE est.expectedOutputTokens

\* C22: estimateCost computes inputCost = inputTokens/1e6 * inputPrice,
\* outputCost = assumedOutputTokens/1e6 * outputPrice and totalCost = their
\* sum (in millionths of a dollar: inputTokens * inputPrice and so on), with
\* the cache's prices and isEstimate = false exactly when the model id is a
\* key of the cache, else with the prices 10 and 30 and isEstimate = true;
\* 100 input tokens and 1000 output tokens at 5 and 15 give 0.0005, 0.015
\* and 0.0155.
C22_EstimateCost ==
    est.pc = "done" =>
        /\ est.result.inputTokens = est.inputTokens
        /\ est.result.estimatedOutputTokens = AssumedOutputTokens
        /\ est.result.inputCost = est.inputTokens * InputPrice
        /\ est.result.outputCost = AssumedOutputTokens * OutputPrice
        /\ est.result.totalCost = est.result.inputCost + est.result.outputCost
        /\ est.result.isEstimate = ~Listed
        /\ (est.inputTokens = 100 /\ AssumedOutputTokens = 1000
               /\ InputPrice = 5 /\ OutputPrice = 15) =>
              /\ est.result.inputCost = 500
              /\ est.result.outputCost = 15000
              /\ est.result.totalCost = 15500

\* The estimate of 100 input tokens and the default 1000 output tokens for
\* a model the cache lists at 5 and 15.
C22_Witness ==
    /\ est.pc = "done"
    /\ Listed
    /\ est.inputTokens = 100
    /\ est.expectedOutputTokens = NoValue
    /\ est.cache.models[est.model] = [input |-> 5, output |-> 15]
    /\ est.result.totalCost = 15500
    /\ ~est.result.isEstimate

\* The process has tested its config's pricing cache.
Tested(t) == refresh[t].pc \notin {"idle", "loaded"}

\* The age of the cache of process t's config when it was tested, and the
\* TTL in hours that applies to it.
AgeAtTest(t) == refresh[t].at - refresh[t].config.lastUpdated

TtlHours(t) ==
    IF refresh[t].config.ttlHours = NoValue THEN 24 ELSE refresh[t].config.ttlHours

\* C23: a pricing cache is valid if and only if it exists and
\* now - lastUpdated < ttlHours * 3600000: at an age equal to the TTL it is
\* stale, with lastUpdated = now it is valid, one millisecond past the TTL
\* it is stale, and a missing cache is stale.
C23_CacheValidity ==
    \A t \in Refreshers :
        Tested(t) =>
            /\ refresh[t].valid <=>
                  (refresh[t].config.present /\ AgeAtTest(t) < TtlHours(t) * 3600000)
            /\ ~refresh[t].config.present => ~refresh[t].valid
            /\ refresh[t].config.present =>
                  /\ AgeAtTest(t) = TtlHours(t) * 3600000 => ~refresh[t].valid
                  /\ AgeAtTest(t) = 0 => refresh[t].valid
                  /\ AgeAtTest(t) = TtlHours(t) * 3600000 + 1 => ~refresh[t].valid
                  /\ AgeAtTest(t) = TtlHours(t) * 3600000 - 1 => refresh[t].valid

\* A cache tested at an age equal to its TTL, and found stale.
C23_Witness ==
    /\ Tested(1)
    /\ refresh[1].config.present
    /\ AgeAtTest(1) = TtlHours(1) * 3600000
    /\ ~refresh[1].valid

\* The ids of the models in the list a refresh fetched.
FetchedIds(t) == {refresh[t].data[i].id : i \in 1..Len(refresh[t].data)}

\* C24: ensurePricingAvailable with a valid cache in the config returns
\* that cache, with no fetch and no write of the persisted config; with a
\* stale or missing cache it makes one fetch and, where it returns, one
\* write, and the cache it returns and persists holds the fetched models
\* only, with a lastUpdated of the refresh.  A refresh that fails has made
\* its one fetch and no write.
C24_EnsurePricing ==
    /\ refresh[1].fetches <= 1
    /\ refresh[1].persists <= refresh[1].fetches
    /\ (Tested(1) /\ refresh[1].valid) =>
          /\ refresh[1].pc = "returned"
          /\ refresh[1].result = refresh[1].config
          /\ refresh[1].fetches = 0
          /\ refresh[1].persists = 0
          /\ disk = refresh[1].config
    /\ (Tested(1) /\ ~refresh[1].valid) =>
          /\ refresh[1].fetches = 1
          /\ refresh[1].pc # "returned" =>
                /\ refresh[1].persists = 0
                /\ disk = refresh[1].config
          /\ refresh[1].pc = "returned" =>
                /\ refresh[1].persists = 1
                /\ disk = refresh[1].result
                /\ DOMAIN refresh[1].result.models = FetchedIds(1)
                /\ refresh[1].result.lastUpdated >= refresh[1].at
                /\ refresh[1].result.lastUpdated <= now
                /\ refresh[1].config.present =>
                      refresh[1].result.lastUpdated > refresh[1].config.lastUpdated

\* A stale cache that listed a model has been refreshed with a list
\* without that model.
C24_Witness ==
    /\ refresh[1].pc = "returned"
    /\ refresh[1].config.present
    /\ ~refresh[1].valid
    /\ refresh[1].persists = 1
    /\ \E id \in DOMAIN refresh[1].config.models : id \notin DOMAIN disk.models

\* The refreshes that have written the config file.
Writers == {t \in Refreshers : refresh[t].persists > 0}

\* C25: whatever the interleaving of concurrent refreshes at their awaits
\* (fetch, response.json, loadConfig, mkdir, write), the persisted pricing
\* cache is at any time, and so when all have finished, the whole cache of
\* one refresh that has written, its models and its lastUpdated; and each
\* write leaves the cache of its writer (the last writer wins).
C25_LastWriterWins ==
    /\ [](\/ Writers = {} /\ disk = NoCache
          \/ \E t \in Writers : disk = refresh[t].cache)
    /\ [][\A t \in Refreshers :
             refresh'[t].persists > refresh[t].persists => disk' = refresh'[t].cache]_vars

\* Two refreshes have written caches of different models and times, all
\* have finished, and the file holds the cache built first: its writer
\* wrote last.
C25_Witness ==
    /\ \A t \in Refreshers : refresh[t].pc \in {"returned", "failed"}
    /\ \E t, u \in Writers :
          /\ DOMAIN refresh[t].cache.models # DOMAIN refresh[u].cache.models
          /\ refresh[t].cache.lastUpdated < refresh[u].cache.lastUpdated
          /\ disk = refresh[t].cache

(***************************************************************************)
(* The claims of the adapters' responses.                                  *)
(***************************************************************************)
\* The response lacks the array the method reads, or the array is empty.
LacksShape ==
    /\ gen.name \in {"generateText", "generateImage"}
    /\ \/ gen.shape \in {"missing", "empty"}
       \/ gen.shape \in Counted /\ gen.n = 0

\* C26: in every adapter's non-streaming generation method, a 2xx response
\* whose choices, candidates, predictions or data array is missing or empty
\* makes the call throw a ProviderError with the adapter's provider id: no
\* other error, and no response.
C26_ShapeError ==
    (gen.pc = "done" /\ LacksShape) =>
        /\ ~gen.returned
        /\ gen.thrown.name = "ProviderError"
        /\ gen.thrown.provider = meta(gen.cls).id

\* C27: every GenerationResponse an adapter or the error formatter
\* produces has a payload where success is true, and has an error message
\* and no payload where success is false.
C27_ResponseInvariant ==
    gen.returned =>
        /\ gen.response.success => gen.response.data # "undefined"
        /\ ~gen.response.success =>
              /\ gen.response.error # "undefined"
              /\ gen.response.data = "undefined"

\* C28: in every adapter's generateImage with an output path, several
\* results are saved under filenames that differ from each other, and a
\* single result under the requested name.
C28_DistinctFiles ==
    (gen.returned /\ gen.name = "generateImage" /\ gen.outputPath # NoPath) =>
        /\ \A i, j \in 1..Len(gen.writes) : i # j => gen.writes[i] # gen.writes[j]
        /\ Len(gen.writes) = 1 => gen.writes[1] = gen.outputPath

\* C29: validateCredentials on an initialized adapter makes one call to the
\* vendor and returns a boolean: true for a 2xx answer, false for another
\* status, and false where the call fails at the network level, which is
\* not thrown.
C29_ValidateCredentials ==
    /\ cred.fetches <= 1
    /\ (cred.pc = "done" /\ cred.initialized) =>
          /\ cred.fetches = 1
          /\ cred.thrown = NoError
          /\ cred.result \in {"true", "false"}
          /\ cred.result = "true" <=> (cred.outcome.kind = "ok" /\ cred.outcome.status = 200)
          /\ cred.outcome.kind = "status" => cred.result = "false"
          /\ cred.outcome.kind = "network" => cred.result = "false"

\* The vendor could not be reached, and validateCredentials returned false.
C29_Witness ==
    /\ cred.pc = "done"
    /\ cred.outcome.kind = "network"
    /\ cred.result = "false"
    /\ cred.thrown = NoError

\* The estimate of the command's request with the pricing of its config.
ConfiguredEstimate ==
    estimateCost(command.fullModel, command.inputTokens,
                 IF falsy(command.maxTokens) THEN 1000 ELSE parseInt(command.maxTokens),
                 refresh[1].config)

\* C30: generate-text without --max-cost takes the config's
\* cost.maxCostPerQuery as the ceiling (0: no ceiling), so that no request
\* is dispatched whose estimated cost is above the configured ceiling.
C30_ConfiguredCeiling ==
    (command.maxCost = "undefined" /\ command.dispatches > 0) =>
        ~exceeds(ConfiguredEstimate, command.ceiling)

(***************************************************************************)
(* The claims of the text request.                                         *)
(***************************************************************************)
\* C31: in every adapter the streaming text request is the non-streaming
\* request for the same input plus the streaming flag: the same model, the
\* same messages with the system prompt where one is given, the same
\* output token limit and temperature.
C31_SameLogicalRequest ==
    req.pc = "done" =>
        /\ req.streaming.stream
        /\ ~req.text.stream
        /\ [req.streaming EXCEPT !.stream = FALSE] = req.text

\* C40: in generate-text the model id the cost guard prices names the
\* model the adapter puts in the request it dispatches, streaming or not,
\* whatever --model holds or with none, and whether the config has a text
\* model or not: the id is that model, prefixed with the provider id and
\* "/" for the providers other than openrouter.
C40_PricedModelIsDispatched ==
    req.pc = "done" =>
        /\ req.text.model = req.streaming.model
        /\ req.priced = IF meta(req.cls).id = "openrouter" THEN req.text.model
                        ELSE meta(req.cls).id \o "/" \o req.text.model

(***************************************************************************)
(* The claims of the registry's discovery calls.                           *)
(***************************************************************************)
\* A step of getProviderInfo or findProvidersForCapability.
Discovers ==
    \/ \E id \in Ids : getProviderInfo(id)
    \/ \E capability \in DiscoveryCapabilities : findProvidersForCapability(capability)

\* C32: getProviderInfo(id) and findProvidersForCapability(capability)
\* leave the instance cache as it is: no id gains or loses a cached
\* adapter, no adapter is constructed, initialized or replaced, and a
\* getProvider(id, config) on an id with no cached adapter, made after any
\* of them, constructs a new adapter of the registered class and
\* initializes it with the config.
C32_DiscoveryReadOnly ==
    /\ [][Discovers => /\ providers' = providers
                       /\ adapters' = adapters
                       /\ constructed' = constructed
                       /\ factories' = factories]_vars
    /\ [][\A id \in Ids, config \in ConfigNames :
            (/\ info.op # "none"
             /\ providers[id] = 0
             /\ getProvider(1, id, config)
             /\ lastGet'.result # "Unknown provider") =>
                /\ Len(adapters') = Len(adapters) + 1
                /\ adapters'[Len(adapters')] = initialize(NewAdapter(factories[id]), config)
                /\ Len(adapters') \in constructed'[id]]_vars

\* After getProviderInfo(id) on an id with no cached adapter, a
\* getProvider(id, config) has returned the one adapter constructed for
\* the id, initialized with its config.
C32_Witness ==
    /\ info.op = "getProviderInfo"
    /\ info.found
    /\ lastGet.result = "ok"
    /\ lastGet.id = info.arg
    /\ lastGet.config # "undefined"
    /\ ~info.cached
    /\ constructed[lastGet.id] = {lastGet.inst}
    /\ adapters[lastGet.inst].initialized

\* C34: an adapter that a getProvider(id, config) call with a config has
\* returned is initialized, also when an earlier getProvider(id) without a
\* config has cached an adapter for the id.
C34_ConfiguredGetInitialized ==
    (lastGet.result = "ok" /\ lastGet.config # "undefined") =>
        adapters[lastGet.inst].initialized

\* C35: once registerFactory(id, f2) has replaced a factory f1,
\* getProvider(id) and getProviderInfo(id) agree on the factory: where the
\* last getProvider returned the adapter every getProvider(id) returns now
\* and the last getProviderInfo described the factory registered now, the
\* adapter's meta is the described meta.
C35_GetAndDescribeAgree ==
    (/\ lastGet.result = "ok"
     /\ providers[lastGet.id] = lastGet.inst
     /\ info.op = "getProviderInfo"
     /\ info.arg = lastGet.id
     /\ info.meta = meta(factories[lastGet.id])) =>
        meta(adapters[lastGet.inst].cls) = info.meta

(***************************************************************************)
(* The claims of the HTTP failures, the attempt count and the last line.   *)
(***************************************************************************)
\* C33: the failure an adapter hands to its caller for a non-2xx response,
\* in a streaming call as in the others, is a ProviderError tagged with
\* the adapter's provider id that carries the response's status.
C33_StatusFailureIsProviderError ==
    [][\A outcome \in FetchOutcomes, text \in Texts :
          (outcome.kind = "status" /\ streamFetchSettles(outcome, text)) =>
              /\ streamCall'.result = "error"
              /\ streamCall'.error.name = "ProviderError"
              /\ streamCall'.error.provider = meta(streamCall.cls).id
              /\ streamCall'.error.status = outcome.status]_vars

\* C36: with a maximum attempt count of 0 a fetchWithRetry call issues no
\* HTTP attempt and no sleep and fails with the ProviderError "Unknown
\* error" of its adapter; with a maximum attempt count of 1 or more it
\* issues at least one HTTP attempt.
C36_ZeroAttempts ==
    InRetry =>
        /\ ConfiguredAttempts = 0 =>
              /\ attempts = 0
              /\ sleeps = <<>>
              /\ inflight = {}
              /\ call.pc = "done"
              /\ call.result = "error"
              /\ call.error = ProviderError("Unknown error",
                                            meta(adapters[call.inst].cls).id, NoValue, 0)
        /\ ConfiguredAttempts >= 1 => attempts >= 1

\* A generateText call on an adapter configured with maxRetries 0 has
\* failed without an attempt.
C36_Witness ==
    /\ InRetry
    /\ ProviderConfig(adapters[call.inst].config).maxRetries = 0
    /\ call.pc = "done"
    /\ call.error.message = "Unknown error"
    /\ attempts = 0

\* The lines of the body before its last, unterminated one.
TerminatedLines == SubSeq(transport.lines, 1, Len(transport.lines) - 1)

\* C37: when the body ends in a fragment with no newline after it, the
\* fragment is never parsed: the chunks yielded are at every moment a
\* prefix of the delta texts of the lines before it, and when the stream
\* has ended at the source's completion they are exactly those, the final
\* "data: " line still unread in the buffer.
C37_FinalFragmentDiscarded ==
    transport.lines # <<>> =>
        /\ IsPrefix(yielded, DeltaTexts(TerminatedLines))
        /\ decoder.ending = "done" =>
              /\ yielded = DeltaTexts(TerminatedLines)
              /\ decoder.buffer = transport.lines[Len(transport.lines)]

\* The stream has ended at the source's completion after a line with the
\* delta text "Yo" and a final line with "Hi" that no newline followed:
\* only "Yo" was yielded.
C37_Witness ==
    /\ decoder.ending = "done"
    /\ transport.lines = <<DataLine(<<"{Yo", "}">>), DataLine(<<"{Hi", "}">>)>>
    /\ decoder.buffer = DataLine(<<"{Hi", "}">>)
    /\ yielded = <<"Yo">>

(***************************************************************************)
(* The claims of the refresh's write and of its failure.                   *)
(***************************************************************************)
\* C38: a pricing refresh changes the pricing section of the config file
\* and nothing else: the write of fetchAndCachePricing leaves every other
\* stored field (the credentials with their ${ENV} placeholders, the
\* output settings) as it was, and creates no file with other content
\* where there was none.
C38_OnlyPricingWritten ==
    [][\A t \in Refreshers : pricingWriteSettles(t) => persisted' = persisted]_vars

\* C39: when the fetch of a refresh fails, with a response that is not ok
\* or with a thrown error, ensurePricingAvailable fails with that error,
\* nothing is written, the config file keeps the pricing cache and the
\* settings it had, and generate-text ends with "Failed to fetch pricing"
\* without dispatching a generation request.
C39_FailedFetchPersistsNothing ==
    /\ [][\A outcome \in FetchOutcomes :
            (outcome.kind # "ok" /\ pricingFetchSettles(1, outcome)) =>
                /\ refresh'[1].pc = "failed"
                /\ refresh'[1].error = IF outcome.kind = "status"
                                       THEN "Failed to fetch models" ELSE "fetch failed"
                /\ disk' = disk
                /\ persisted' = persisted]_vars
    /\ [][refresh[1].pc = "failed" =>
              /\ disk' = disk
              /\ persisted' = persisted
              /\ refresh'[1] = refresh[1]]_vars
    /\ [](refresh[1].pc = "failed" =>
              /\ refresh[1].persists = 0
              /\ disk = refresh[1].config
              /\ command.dispatches = 0
              /\ command.pc \in {"pricing", "failed"}
              /\ command.pc = "failed" => command.error = "Failed to fetch pricing")

\* generate-text has failed on a non-ok response of the pricing fetch,
\* the outdated cache of the config file in place and nothing dispatched.
C39_Witness ==
    /\ command.pc = "failed"
    /\ command.error = "Failed to fetch pricing"
    /\ refresh[1].error = "Failed to fetch models"
    /\ disk.present
    /\ disk = refresh[1].config
    /\ persisted = DEFAULT_CONFIG
    /\ command.dispatches = 0
====
